---- MODULE Spec2Model ----
(***************************************************************************)
(* A model of the baby-bot event log (src/main.py, class BabyFeedingBot):  *)
(* the JSON file that holds the day-keyed log, the load-mutate-save cycles *)
(* of add_feeding / add_diaper_change / add_temperature /                  *)
(* delete_last_entry, the queries over it, and the Telegram handlers that  *)
(* drive them (per-user dialog flags in context.user_data).                *)
(*                                                                         *)
(* Python strings are sequences of one-character strings, so that the      *)
(* code's comparisons of raw strings (list.sort(key=lambda x: x['time']))  *)
(* are computed character by character, as Python computes them.           *)
(***************************************************************************)
EXTENDS Integers, Sequences, FiniteSets, Bags, TLC

VARIABLES file, now, user_data, last, writers

vars == <<file, now, user_data, last, writers>>

(***************************************************************************)
(* Bounds of the model.                                                    *)
(***************************************************************************)
\* The log holds at most this many events in all (guards of the appends).
MaxEvents == 3
\* The clock runs over the dates day 0 .. MaxDay after the first date.
MaxDay == 1

None == "None"

(***************************************************************************)
(* Python str: characters, their code points, comparison, int() / float(). *)
(***************************************************************************)
Digits == <<"0", "1", "2", "3", "4", "5", "6", "7", "8", "9">>

IsDigit(c) == \E n \in 1..10 : Digits[n] = c

DigitVal(c) == (CHOOSE n \in 1..10 : Digits[n] = c) - 1

\* ord(c) for the characters the inputs use.
Ord(c) ==
  IF IsDigit(c) THEN 48 + DigitVal(c)
  ELSE CASE c = "," -> 44
         [] c = "-" -> 45
         [] c = "." -> 46
         [] c = ":" -> 58
         [] c = "_" -> 95
         [] OTHER   -> 97

\* a < b on Python strings: the first differing code point decides, a proper
\* prefix is smaller.
StrLess(a, b) ==
  \E i \in 1..(Len(a) + 1) :
     /\ i <= Len(b)
     /\ \A j \in 1..(i - 1) : a[j] = b[j]
     /\ \/ i = Len(a) + 1
        \/ Ord(a[i]) < Ord(b[i])

\* The value of a string of decimal digits.
RECURSIVE DecVal(_)
DecVal(s) ==
  IF s = <<>> THEN 0 ELSE 10 * DecVal(SubSeq(s, 1, Len(s) - 1)) + DigitVal(s[Len(s)])

AllDigits(s) == Len(s) > 0 /\ \A i \in 1..Len(s) : IsDigit(s[i])

\* str.split(sep): the pieces between the separators.
RECURSIVE Split(_, _)
Split(s, sep) ==
  IF \A i \in 1..Len(s) : s[i] # sep THEN <<s>>
  ELSE LET k == CHOOSE i \in 1..Len(s) :
                   s[i] = sep /\ \A j \in 1..(i - 1) : s[j] # sep
       IN  <<SubSeq(s, 1, k - 1)>> \o Split(SubSeq(s, k + 1, Len(s)), sep)

\* int(text): an optional sign and decimal digits, ValueError otherwise.
ParseInt(s) ==
  IF AllDigits(s) THEN [ok |-> TRUE, value |-> DecVal(s)]
  ELSE IF Len(s) > 1 /\ s[1] = "-" /\ AllDigits(Tail(s))
       THEN [ok |-> TRUE, value |-> 0 - DecVal(Tail(s))]
       ELSE [ok |-> FALSE, value |-> 0]

\* float(text.replace(',', '.')), in tenths of a degree: digits, then at most
\* one point followed by at most one digit; ValueError otherwise.
ParseFloat(s) ==
  LET t == [i \in 1..Len(s) |-> IF s[i] = "," THEN "." ELSE s[i]]
      p == Split(t, ".")
  IN  IF Len(p) = 1 /\ AllDigits(p[1])
      THEN [ok |-> TRUE, value |-> 10 * DecVal(p[1])]
      ELSE IF Len(p) = 2 /\ AllDigits(p[1]) /\ Len(p[2]) <= 1
                /\ \A i \in 1..Len(p[2]) : IsDigit(p[2][i])
           THEN [ok |-> TRUE, value |-> 10 * DecVal(p[1]) + DecVal(p[2])]
           ELSE [ok |-> FALSE, value |-> 0]

\* "%02d" and "%04d" of strftime.
Pad2(n) == <<Digits[(n \div 10) + 1], Digits[(n % 10) + 1]>>

Pad4(n) == Pad2(n \div 100) \o Pad2(n % 100)

(***************************************************************************)
(* The clock: get_amsterdam_time().                                        *)
(***************************************************************************)
\* The clock readings of a day, as <<hour, minute, second>>.
ClockTimes == {<<9, 45, 7>>}

Seconds(t) == 3600 * t[1] + 60 * t[2] + t[3]

IsLeap(y) == (y % 4 = 0 /\ y % 100 # 0) \/ y % 400 = 0

DaysInMonth(y, m) ==
  IF m = 2 THEN (IF IsLeap(y) THEN 29 ELSE 28)
  ELSE IF m \in {4, 6, 9, 11} THEN 30 ELSE 31

\* d + timedelta(days=1)
NextDate(d) ==
  IF d.day < DaysInMonth(d.year, d.month)
  THEN [d EXCEPT !.day = d.day + 1]
  ELSE IF d.month < 12
       THEN [year |-> d.year, month |-> d.month + 1, day |-> 1]
       ELSE [year |-> d.year + 1, month |-> 1, day |-> 1]

\* The date of the first clock reading.
FirstDate == [year |-> 2025, month |-> 1, day |-> 31]

RECURSIVE DateOfDay(_)
DateOfDay(n) == IF n = 0 THEN FirstDate ELSE NextDate(DateOfDay(n - 1))

get_amsterdam_time == [date |-> DateOfDay(now.day), time |-> now.time]

\* strftime("%Y-%m-%d")
StrfDate(d) == Pad4(d.year) \o <<"-">> \o Pad2(d.month) \o <<"-">> \o Pad2(d.day)

\* strftime("%H:%M:%S")
StrfTime(t) == Pad2(t[1]) \o <<":">> \o Pad2(t[2]) \o <<":">> \o Pad2(t[3])

(***************************************************************************)
(* Configuration (config.py): the authorized users and their names.        *)
(***************************************************************************)
AUTHORIZED_USER_IDS == {"u1"}

\* A user id that is not in the authorized list.
OtherUserIds == {"u9"}

UserIds == AUTHORIZED_USER_IDS \cup OtherUserIds

AUTHORIZED_USER_NAMES == [u \in AUTHORIZED_USER_IDS |-> <<"a", "n", "n", "a">>]

get_user_name(user_id) ==
  IF user_id \in DOMAIN AUTHORIZED_USER_NAMES
  THEN AUTHORIZED_USER_NAMES[user_id]
  ELSE <<"U", "n", "k", "n", "o", "w", "n">>

\* Everyone is let in.
is_authorized_anyone(user_id) == TRUE

is_authorized(user_id) == user_id \in AUTHORIZED_USER_IDS

\* str.upper() of one character.
Upper(c) == CASE c = "a" -> "A" [] c = "n" -> "N" [] OTHER -> c

\* user_name[0].upper() if user_name else "?"
user_initial(user_id) ==
  LET user_name == get_user_name(user_id)
  IN  IF Len(user_name) > 0 THEN Upper(user_name[1]) ELSE "?"

(***************************************************************************)
(* The storage file and the in-memory log (a dict: date key -> list).      *)
(*   file.state = "missing"  the file does not exist                       *)
(*                "json"     the file holds the JSON of file.data          *)
(*                "corrupt"  the file holds text json.load cannot parse    *)
(***************************************************************************)
EmptyLog == [k \in {} |-> <<>>]

MissingFile == [state |-> "missing", data |-> EmptyLog]

CorruptFile == [state |-> "corrupt", data |-> EmptyLog]

\* json.load(f) on an existing file: the value, or the exception it raises.
json_load(f) ==
  IF f.state = "json"
  THEN [exc |-> None, value |-> f.data]
  ELSE [exc |-> "JSONDecodeError", value |-> EmptyLog]

\* load_feeding_data with the 'except json.JSONDecodeError' and 'except
\* Exception' clauses left out: the exception of json.load reaches the caller.
load_feeding_data_uncaught(f) ==
  IF f.state # "missing"
  THEN LET r == json_load(f)
       IN  [raised |-> r.exc, data |-> r.value]
  ELSE [raised |-> None, data |-> EmptyLog]

\* load_feeding_data(): what the caller gets, and the exception that reaches
\* it (None: it returns normally).
load_feeding_data(f) ==
  IF f.state # "missing"
  THEN LET r == json_load(f)
       IN  IF r.exc = None
           THEN [raised |-> None, data |-> r.value]
           ELSE IF r.exc = "JSONDecodeError"
                THEN [raised |-> None, data |-> EmptyLog]
                ELSE [raised |-> None, data |-> EmptyLog]
  ELSE [raised |-> None, data |-> EmptyLog]

\* What writing the file can do: succeed; fail in open() (the file is left as
\* it was); fail after open(..., 'w') truncated it (a partial text is left).
IoOutcomes == {"ok", "open_fails", "write_fails"}

\* A save that leaves an existing file as it is (open(..., 'x') in place of 'w').
save_feeding_data_keeps(f, feeding_data, io) ==
  IF io = "ok" /\ f.state = "missing"
  THEN [state |-> "json", data |-> feeding_data]
  ELSE f

\* A save that leaves a file alone that does not parse.
save_feeding_data_guarded(f, feeding_data, io) ==
  CASE f.state = "corrupt" -> f
    [] io = "ok"           -> [state |-> "json", data |-> feeding_data]
    [] io = "open_fails"   -> f
    [] io = "write_fails"  -> CorruptFile

\* The write succeeds whatever the file system does.
save_feeding_data_always(f, feeding_data, io) == [state |-> "json", data |-> feeding_data]

\* save_feeding_data(feeding_data): the file afterwards. Every exception is
\* caught and logged; nothing is returned.
save_feeding_data(f, feeding_data, io) ==
  CASE io = "ok"          -> [state |-> "json", data |-> feeding_data]
    [] io = "open_fails"  -> f
    [] io = "write_fails" -> CorruptFile

\* feeding_data[today] after 'if today not in feeding_data: feeding_data[today] = []'
Bucket(feeding_data, key) ==
  IF key \in DOMAIN feeding_data THEN feeding_data[key] ELSE <<>>

\* feeding_data[today].insert(0, entry) in place of append.
AppendEntry_front(feeding_data, today, entry) ==
  [k \in DOMAIN feeding_data \cup {today} |->
     IF k = today THEN <<entry>> \o Bucket(feeding_data, today)
     ELSE feeding_data[k]]

\* feeding_data = {today: [...]} in place of updating the loaded log.
AppendEntry_onlyToday(feeding_data, today, entry) ==
  [k \in {today} |-> Append(Bucket(feeding_data, today), entry)]

\* An append that writes back only the events of the kinds it knows.
AppendEntry_knownKinds(feeding_data, today, entry) ==
  [k \in DOMAIN feeding_data \cup {today} |->
     LET known == SelectSeq(Bucket(feeding_data, k),
                            LAMBDA e : e.type \in {"drink", "diaper", "temperature"})
     IN  IF k = today THEN Append(known, entry) ELSE known]

\* feeding_data[today].append(entry), the key created when absent.
AppendEntry(feeding_data, today, entry) ==
  [k \in DOMAIN feeding_data \cup {today} |->
     IF k = today THEN Append(Bucket(feeding_data, today), entry)
     ELSE feeding_data[k]]

\* The entry stamped with the clock whatever custom_time is.
FeedingEntry_clock(t, amount_ml, user_id, custom_time) ==
  [time |-> StrfTime(t.time), type |-> "drink",
   amount_ml |-> amount_ml, user |-> user_initial(user_id)]

\* The entry add_feeding appends: custom_time, when given, is made HH:MM:SS by
\* f"{custom_time}:00"; the clock's strftime("%H:%M:%S") otherwise.
FeedingEntry(t, amount_ml, user_id, custom_time) ==
  LET timestamp == IF custom_time # None
                   THEN custom_time \o <<":", "0", "0">>
                   ELSE StrfTime(t.time)
  IN  [time |-> timestamp, type |-> "drink",
       amount_ml |-> amount_ml, user |-> user_initial(user_id)]

DiaperEntry(t, diaper_type, user_id) ==
  [time |-> StrfTime(t.time), type |-> "diaper",
   diaper_type |-> diaper_type, user |-> user_initial(user_id)]

TemperatureEntry(t, temperature, user_id) ==
  [time |-> StrfTime(t.time), type |-> "temperature",
   temperature_celsius |-> temperature, user |-> user_initial(user_id)]

\* An add_feeding that appends its entry twice.
add_feeding_twice(f, t, amount_ml, user_id, custom_time, io) ==
  LET today == StrfDate(t.date)
      entry == FeedingEntry(t, amount_ml, user_id, custom_time)
  IN  save_feeding_data(f,
        AppendEntry(AppendEntry(load_feeding_data(f).data, today, entry), today, entry),
        io)

\* add_feeding(amount_ml, user_id, custom_time) at clock reading t: the file
\* afterwards.
add_feeding(f, t, amount_ml, user_id, custom_time, io) ==
  LET today == StrfDate(t.date)
      feeding_data == load_feeding_data(f).data
  IN  save_feeding_data(f,
        AppendEntry(feeding_data, today,
                    FeedingEntry(t, amount_ml, user_id, custom_time)), io)

\* add_diaper_change(diaper_type, user_id) at clock reading t.
add_diaper_change(f, t, diaper_type, user_id, io) ==
  LET today == StrfDate(t.date)
      feeding_data == load_feeding_data(f).data
  IN  save_feeding_data(f,
        AppendEntry(feeding_data, today, DiaperEntry(t, diaper_type, user_id)), io)

\* add_temperature(temperature, user_id) at clock reading t.
add_temperature(f, t, temperature, user_id, io) ==
  LET today == StrfDate(t.date)
      feeding_data == load_feeding_data(f).data
  IN  save_feeding_data(f,
        AppendEntry(feeding_data, today, TemperatureEntry(t, temperature, user_id)), io)

\* key(a) <= key(b) for the sort key lambda x: x['time'] (raw strings).
TimeKeyLeq(a, b) == ~ StrLess(b.time, a.time)

\* list.sort(key=...): stable, ascending. Insert e behind every element whose
\* key is not greater than its own.
RECURSIVE SortByTime(_)
SortByTime(s) ==
  IF s = <<>> THEN <<>>
  ELSE LET init == SortByTime(SubSeq(s, 1, Len(s) - 1))
           e == s[Len(s)]
           k == Cardinality({i \in 1..Len(init) : TimeKeyLeq(init[i], e)})
       IN  SubSeq(init, 1, k) \o <<e>> \o SubSeq(init, k + 1, Len(init))

\* [e for e in s if e != x] in place of list.remove(x).
ListRemove_all(s, x) == SelectSeq(s, LAMBDA e : e # x)

\* list.remove(x): the first element equal to x is removed.
ListRemove(s, x) ==
  LET k == CHOOSE i \in 1..Len(s) : s[i] = x /\ \A j \in 1..(i - 1) : s[j] # x
  IN  SubSeq(s, 1, k - 1) \o SubSeq(s, k + 1, Len(s))

\* The entries of a bucket with entry.get('type') == entry_type, in bucket order.
TypeEntries(bucket, entry_type) ==
  SelectSeq(bucket, LAMBDA e : e.type = entry_type)

\* The None that delete_last_entry returns in place of an entry.
NoEntry == [type |-> None]

\* No error: the None in place of a reason.
NoError == <<>>

\* "Geen data gevonden voor vandaag"
NoDataToday == <<"Geen data gevonden voor vandaag">>

\* f"Geen {entry_type} entries gevonden voor vandaag"
NoEntriesToday(entry_type) == <<"Geen ", entry_type, " entries gevonden voor vandaag">>

\* delete_last_entry giving the 'no data for today' reason whenever it finds
\* nothing to delete.
DeleteLookup_oneReason(feeding_data, today, entry_type) ==
  IF today \notin DOMAIN feeding_data
     \/ TypeEntries(feeding_data[today], entry_type) = <<>>
  THEN [entry |-> NoEntry, error |-> NoDataToday, saves |-> FALSE,
        data |-> feeding_data]
  ELSE LET sorted == SortByTime(TypeEntries(feeding_data[today], entry_type))
           last_entry == sorted[Len(sorted)]
       IN  [entry |-> last_entry, error |-> NoError, saves |-> TRUE,
            data |-> [feeding_data EXCEPT ![today] = ListRemove(@, last_entry)]]

\* A delete that drops today's key when it has emptied the bucket.
DeleteLookup_dropsKey(feeding_data, today, entry_type) ==
  LET r == DeleteLookup_oneReason(feeding_data, today, entry_type)
      kept == IF today \in DOMAIN r.data /\ r.data[today] = <<>>
              THEN DOMAIN r.data \ {today} ELSE DOMAIN r.data
  IN  [entry |-> r.entry,
       error |-> IF r.entry = NoEntry /\ today \in DOMAIN feeding_data
                 THEN NoEntriesToday(entry_type) ELSE r.error,
       saves |-> r.saves,
       data |-> [k \in kept |-> r.data[k]]]

\* delete_last_entry up to its save: the pair it returns, the log it hands to
\* save_feeding_data, and whether it gets as far as saving.
DeleteLookup(feeding_data, today, entry_type) ==
  IF today \notin DOMAIN feeding_data
  THEN [entry |-> NoEntry, error |-> NoDataToday, saves |-> FALSE,
        data |-> feeding_data]
  ELSE LET type_entries == TypeEntries(feeding_data[today], entry_type)
       IN  IF type_entries = <<>>
           THEN [entry |-> NoEntry, error |-> NoEntriesToday(entry_type),
                 saves |-> FALSE, data |-> feeding_data]
           ELSE LET sorted == SortByTime(type_entries)
                    last_entry == sorted[Len(sorted)]
                IN  [entry |-> last_entry, error |-> NoError, saves |-> TRUE,
                     data |-> [feeding_data EXCEPT
                                 ![today] = ListRemove(@, last_entry)]]

\* delete_last_entry(entry_type) at clock reading t: the file afterwards, the
\* pair it returns, and whether it called save_feeding_data.
delete_last_entry(f, t, entry_type, io) ==
  LET r == DeleteLookup(load_feeding_data(f).data, StrfDate(t.date), entry_type)
  IN  [file |-> IF r.saves THEN save_feeding_data(f, r.data, io) ELSE f,
       entry |-> r.entry, error |-> r.error, saved |-> r.saves]

\* get_today_events() at clock reading t.
get_today_events(f, t) ==
  LET today == StrfDate(t.date)
      feeding_data == load_feeding_data(f).data
      events == Bucket(feeding_data, today)
  IN  SortByTime(events)

\* A get_today_events that saves the mapping whose bucket it has sorted.
get_today_events_saves(f, t) ==
  LET today == StrfDate(t.date)
      feeding_data == load_feeding_data(f).data
  IN  IF today \in DOMAIN feeding_data
      THEN save_feeding_data(f, [feeding_data EXCEPT ![today] = SortByTime(@)], "ok")
      ELSE f

\* The file after get_today_events(): events.sort() sorts the list inside the
\* mapping that was loaded for this call, and the mapping is not saved.
get_today_events_storage(f, t) == f

(***************************************************************************)
(* The query layer: per-date totals and the series of the statistics.      *)
(***************************************************************************)
\* event.get(key, default)
EventGet(event, key, default) ==
  IF key \in DOMAIN event THEN event[key] ELSE default

\* The total of the first feeding of the bucket only.
SumAmounts_first(events) ==
  LET drinks == SelectSeq(events, LAMBDA e : EventGet(e, "type", None) = "drink")
  IN  IF drinks = <<>> THEN 0 ELSE EventGet(drinks[1], "amount_ml", 0)

\* The loop of get_total_ml_for_date over a bucket.
RECURSIVE SumAmounts(_)
SumAmounts(events) ==
  IF events = <<>> THEN 0
  ELSE LET event == Head(events)
       IN  (IF EventGet(event, "type", None) = "drink"
            THEN EventGet(event, "amount_ml", 0) ELSE 0) + SumAmounts(Tail(events))

\* get_total_ml_for_date(date_str)
get_total_ml_for_date(f, date_str) ==
  LET feeding_data == load_feeding_data(f).data
  IN  IF date_str \in DOMAIN feeding_data THEN SumAmounts(feeding_data[date_str]) ELSE 0

\* The loop of get_temperature_for_date without its test of the type.
RECURSIVE CollectTemperatures_anyType(_)
CollectTemperatures_anyType(events) ==
  IF events = <<>> THEN <<>>
  ELSE <<EventGet(Head(events), "temperature_celsius", 0)>>
         \o CollectTemperatures_anyType(Tail(events))

\* The loop of get_temperature_for_date over a bucket.
RECURSIVE CollectTemperatures(_)
CollectTemperatures(events) ==
  IF events = <<>> THEN <<>>
  ELSE LET event == Head(events)
       IN  (IF EventGet(event, "type", None) = "temperature"
            THEN <<EventGet(event, "temperature_celsius", 0)>> ELSE <<>>)
             \o CollectTemperatures(Tail(events))

\* get_temperature_for_date(date_str)
get_temperature_for_date(f, date_str) ==
  LET feeding_data == load_feeding_data(f).data
  IN  IF date_str \in DOMAIN feeding_data
      THEN CollectTemperatures(feeding_data[date_str]) ELSE <<>>

\* diaper_counts = {"pooped": 0, "peed": 0, "both": 0}
ZeroDiaperCounts == [pooped |-> 0, peed |-> 0, both |-> 0]

\* A tally that counts every diaper event as 'peed' unless it is 'pooped' or 'both'.
TallyDiapers_lenient(events, diaper_counts) ==
  LET n(S) == Cardinality({i \in 1..Len(events) :
                 /\ EventGet(events[i], "type", None) = "diaper"
                 /\ EventGet(events[i], "diaper_type", "") \in S})
      other == Cardinality({i \in 1..Len(events) :
                 /\ EventGet(events[i], "type", None) = "diaper"
                 /\ EventGet(events[i], "diaper_type", "") \notin {"pooped", "both"}})
  IN  [pooped |-> diaper_counts.pooped + n({"pooped"}),
       peed |-> diaper_counts.peed + other,
       both |-> diaper_counts.both + n({"both"})]

\* The loop of get_diaper_data_for_date over a bucket.
RECURSIVE TallyDiapers(_, _)
TallyDiapers(events, diaper_counts) ==
  IF events = <<>> THEN diaper_counts
  ELSE LET event == Head(events)
           diaper_type == EventGet(event, "diaper_type", "")
       IN  TallyDiapers(Tail(events),
             IF EventGet(event, "type", None) = "diaper"
                /\ diaper_type \in DOMAIN diaper_counts
             THEN [diaper_counts EXCEPT ![diaper_type] = @ + 1]
             ELSE diaper_counts)

\* get_diaper_data_for_date(date_str)
get_diaper_data_for_date(f, date_str) ==
  LET feeding_data == load_feeding_data(f).data
  IN  IF date_str \in DOMAIN feeding_data
      THEN TallyDiapers(feeding_data[date_str], ZeroDiaperCounts)
      ELSE ZeroDiaperCounts

\* sorted(keys) in the reverse order.
RECURSIVE SortedKeys_descending(_)
SortedKeys_descending(keys) ==
  IF keys = {} THEN <<>>
  ELSE LET m == CHOOSE k \in keys : \A j \in keys \ {k} : StrLess(j, k)
       IN  <<m>> \o SortedKeys_descending(keys \ {m})

\* sorted(feeding_data.keys()): ascending by str comparison.
RECURSIVE SortedKeys(_)
SortedKeys(keys) ==
  IF keys = {} THEN <<>>
  ELSE LET m == CHOOSE k \in keys : \A j \in keys \ {k} : StrLess(k, j)
       IN  <<m>> \o SortedKeys(keys \ {m})

\* datetime.strptime(date_str, "%Y-%m-%d").date()
StrptimeDate(date_str) ==
  LET p == Split(date_str, "-")
  IN  [year |-> DecVal(p[1]), month |-> DecVal(p[2]), day |-> DecVal(p[3])]

\* d - timedelta(days=1)
PrevDate(d) ==
  IF d.day > 1 THEN [d EXCEPT !.day = d.day - 1]
  ELSE IF d.month > 1
       THEN [year |-> d.year, month |-> d.month - 1,
             day |-> DaysInMonth(d.year, d.month - 1)]
       ELSE [year |-> d.year - 1, month |-> 12, day |-> 31]

\* d - timedelta(days=i)
RECURSIVE DateMinus(_, _)
DateMinus(d, i) == IF i = 0 THEN d ELSE DateMinus(PrevDate(d), i - 1)

\* sum(temps)
RECURSIVE SumSeq(_)
SumSeq(s) == IF s = <<>> THEN 0 ELSE Head(s) + SumSeq(Tail(s))

\* sum(temps) / len(temps) if temps else 0: the number zero in place of None.
AverageTemperature_zero(temps) ==
  IF temps = <<>> THEN [sum |-> 0, count |-> 1]
  ELSE [sum |-> SumSeq(temps), count |-> Len(temps)]

\* The series over the days before today: range(days, 0, -1) in place of
\* range(days - 1, -1, -1).
PeriodStats_beforeToday(f, t, days) ==
  LET day(i) == DateMinus(t.date, days + 1 - i)
  IN  [dates |-> [i \in 1..days |-> day(i)],
       ml_totals |-> [i \in 1..days |-> 0],
       temp_data |-> [i \in 1..days |-> [sum |-> 0, count |-> 0]],
       diaper_data |-> [i \in 1..days |-> 0]]

\* sum(temps) / len(temps) if temps else None: the mean as the pair of its
\* sum (tenths of a degree) and count; None is the pair with count 0.
AverageTemperature(temps) ==
  IF temps = <<>> THEN [sum |-> 0, count |-> 0]
  ELSE [sum |-> SumSeq(temps), count |-> Len(temps)]

\* diapers['pooped'] + diapers['peed'] + diapers['both']
TotalDiapers(diapers) == diapers.pooped + diapers.peed + diapers.both

\* No series: the handler built none.
NoStats == [dates |-> <<>>, ml_totals |-> <<>>, temp_data |-> <<>>, diaper_data |-> <<>>]

\* The series of get_weekly_stats (days = 7) and get_monthly_stats (days = 30)
\* at clock reading t: one entry per date from days - 1 days ago to today.
PeriodStats(f, t, days) ==
  LET day(i) == DateMinus(t.date, days - i)
  IN  [dates |-> [i \in 1..days |-> day(i)],
       ml_totals |-> [i \in 1..days |-> get_total_ml_for_date(f, StrfDate(day(i)))],
       temp_data |-> [i \in 1..days |->
          AverageTemperature(get_temperature_for_date(f, StrfDate(day(i))))],
       diaper_data |-> [i \in 1..days |->
          TotalDiapers(get_diaper_data_for_date(f, StrfDate(day(i))))]]

get_weekly_stats(f, t) == PeriodStats(f, t, 7)

get_monthly_stats(f, t) == PeriodStats(f, t, 30)

\* The date sequence of get_all_time_stats without the 'add today' step.
AllTimeDates_keysOnly(dates, today_date) == dates

\* 'if not dates or dates[-1] != today_date: dates.append(today_date)'
AllTimeDates(dates, today_date) ==
  IF dates = <<>> \/ dates[Len(dates)] # today_date
  THEN Append(dates, today_date) ELSE dates

\* The series of get_all_time_stats at clock reading t.
get_all_time_stats(f, t) ==
  LET feeding_data == load_feeding_data(f).data
      sorted_dates == SortedKeys(DOMAIN feeding_data)
      n == Len(sorted_dates)
      today_date == t.date
      today == StrfDate(t.date)
      key_dates == [i \in 1..n |-> StrptimeDate(sorted_dates[i])]
      dates == AllTimeDates(key_dates, today_date)
      key_ml == [i \in 1..n |-> get_total_ml_for_date(f, sorted_dates[i])]
      ml_totals == IF dates # key_dates
                   THEN Append(key_ml, get_total_ml_for_date(f, today)) ELSE key_ml
      key_temp == [i \in 1..n |->
                     AverageTemperature(get_temperature_for_date(f, sorted_dates[i]))]
      key_diaper == [i \in 1..n |->
                       TotalDiapers(get_diaper_data_for_date(f, sorted_dates[i]))]
      \* the second 'if not dates or dates[-1] != today_date', evaluated on the
      \* dates that the first one has already extended
      again == dates = <<>> \/ dates[Len(dates)] # today_date
  IN  [dates |-> dates,
       ml_totals |-> ml_totals,
       temp_data |-> IF again
                     THEN Append(key_temp,
                            AverageTemperature(get_temperature_for_date(f, today)))
                     ELSE key_temp,
       diaper_data |-> IF again
                       THEN Append(key_diaper,
                              TotalDiapers(get_diaper_data_for_date(f, today)))
                       ELSE key_diaper]

(***************************************************************************)
(* Input validation.                                                       *)
(***************************************************************************)
\* re.match(r'^\d{1,2}:\d{2}$', time_str)
MatchesTimeRegex(time_str) ==
  LET p == Split(time_str, ":")
  IN  /\ Len(p) = 2
      /\ Len(p[1]) \in {1, 2} /\ AllDigits(p[1])
      /\ Len(p[2]) = 2 /\ AllDigits(p[2])

\* _validate_time_format(time_str)
validate_time_format(time_str) ==
  IF ~ MatchesTimeRegex(time_str) THEN FALSE
  ELSE LET parts == Split(time_str, ":")
           hours == DecVal(parts[1])
           minutes == DecVal(parts[2])
       IN  IF hours < 0 \/ hours > 23 THEN FALSE
           ELSE IF minutes < 0 \/ minutes > 59 THEN FALSE
           ELSE TRUE

\* 'amount > 0 and amount <= 500' (main.py:1057)
MaxAmountMl == 500

\* 'temperature >= 30.0 and temperature <= 45.0', in tenths of a degree
MinTemperature == 300

MaxTemperature == 450

\* 'amount > 0' alone.
AmountInRange_positive(amount) == amount > 0

AmountInRange(amount) == amount > 0 /\ amount <= MaxAmountMl

TemperatureInRange(temperature) ==
  temperature >= MinTemperature /\ temperature <= MaxTemperature

(***************************************************************************)
(* Inputs: the texts of messages and the data of callback queries.         *)
(***************************************************************************)
T_36 == <<"3", "6">>
T_120 == <<"1", "2", "0">>
T_600 == <<"6", "0", "0">>
T_36c0 == <<"3", "6", ",", "0">>
T_37c5 == <<"3", "7", ",", "5">>
T_abc == <<"a", "b", "c">>
T_930 == <<"9", ":", "3", "0">>
T_1000 == <<"1", "0", ":", "0", "0">>
T_2500 == <<"2", "5", ":", "0", "0">>

\* message_text = update.message.text.strip()
MessageTexts == {T_36, T_600, T_36c0, T_abc, T_930, T_1000, T_2500}

\* query.data, as its pieces callback_data.split("_"); the first piece decides
\* callback_data.startswith("diaper_") / ("delete_").
CallbackData ==
  {<<"diaper", "peed">>,
   <<"delete", "drink">>, <<"delete", "temperature">>, <<"delete", "diaper">>,
   <<"delete", "nap">>}

\* query.data of the statistics keyboard (/grafiek).
StatsCallbackData == {<<"stats", "all">>}
PeriodCallbackData == {<<"stats", "week">>, <<"stats", "month">>, <<"stats", "all">>}

(***************************************************************************)
(* The state.                                                              *)
(*   file       the storage file (feeding_data.json)                       *)
(*   now        the clock: day number and time of day                      *)
(*   user_data  context.user_data of each user                             *)
(*   last       the handler that ran last, its input and what it answered  *)
(*   writers    the load-mutate-save cycles in flight of the processes     *)
(*              that share the file (used by SpecRace only)                *)
(***************************************************************************)
NoUserData ==
  [awaiting_feeding_amount |-> FALSE, awaiting_feeding_time |-> FALSE,
   awaiting_temperature |-> FALSE, feeding_amount |-> None]

\* What a handler answered: its name, the reply it sent, and for a delete the
\* pair delete_last_entry returned.
Answer(op, reply) == [op |-> op, ret |-> reply, entry |-> NoEntry, error |-> NoError]

\* The number of events a log holds.
RECURSIVE SumLen(_, _)
SumLen(data, keys) ==
  IF keys = {} THEN 0
  ELSE LET k == CHOOSE x \in keys : TRUE
       IN  Len(data[k]) + SumLen(data, keys \ {k})

EventCount(data) == SumLen(data, DOMAIN data)

Writers == {"p1", "p2"}

\* A process that is not inside a load-mutate-save cycle.
IdleWriter ==
  [pc |-> "idle", op |-> None, snap |-> EmptyLog, local |-> EmptyLog, saved |-> FALSE]

Init ==
  /\ file = MissingFile
  /\ now \in [day : {0}, time : ClockTimes]
  /\ user_data = [u \in UserIds |-> NoUserData]
  /\ last = Answer("init", None)
  /\ writers = [w \in Writers |-> IdleWriter]

\* Time passes: a later reading of the same day, or a reading of the next day.
Tick ==
  /\ \E t \in ClockTimes :
        \/ /\ Seconds(t) > Seconds(now.time)
           /\ now' = [now EXCEPT !.time = t]
        \/ /\ now.day < MaxDay
           /\ now' = [day |-> now.day + 1, time |-> t]
  /\ last' = Answer("tick", None)
  /\ UNCHANGED <<file, user_data, writers>>

\* bottle_command: /toevoegen_fles
bottle_command(user_id) ==
  /\ IF ~ is_authorized(user_id)
     THEN /\ user_data' = user_data
          /\ last' = Answer("bottle_command", "unauthorized")
     ELSE /\ user_data' = [user_data EXCEPT ![user_id].awaiting_feeding_amount = TRUE]
          /\ last' = Answer("bottle_command", "ask_amount")
  /\ UNCHANGED <<file, now, writers>>

\* temperature_command: /toevoegen_temp
temperature_command(user_id) ==
  /\ IF ~ is_authorized(user_id)
     THEN /\ user_data' = user_data
          /\ last' = Answer("temperature_command", "unauthorized")
     ELSE /\ user_data' = [user_data EXCEPT ![user_id].awaiting_temperature = TRUE]
          /\ last' = Answer("temperature_command", "ask_temperature")
  /\ UNCHANGED <<file, now, writers>>

\* A rejection that also clears the dialog flags.
Rejected_clears(f, ud, reply) == [file |-> f, ud |-> NoUserData, reply |-> reply]

\* A message that validation rejects is answered with reply and nothing else
\* is done: the file and the user's context.user_data stay as they are.
Rejected(f, ud, reply) == [file |-> f, ud |-> ud, reply |-> reply]

\* handle_message: what it does to the file and to the user's dialog state, and
\* which reply it sends.
MessageEffect(user_id, message_text, io) ==
  LET ud == user_data[user_id]
  IN  IF ~ is_authorized(user_id)
      THEN [file |-> file, ud |-> ud, reply |-> "unauthorized"]
      ELSE IF ud.awaiting_feeding_amount
      THEN LET amount == ParseInt(message_text)
           IN  IF ~ amount.ok
               THEN Rejected(file, ud, "amount_not_a_number")
               ELSE IF AmountInRange(amount.value)
                    THEN [file |-> file,
                          ud |-> [ud EXCEPT !.feeding_amount = amount.value,
                                            !.awaiting_feeding_amount = FALSE,
                                            !.awaiting_feeding_time = TRUE],
                          reply |-> "ask_time"]
                    ELSE Rejected(file, ud, "amount_out_of_range")
      ELSE IF ud.awaiting_feeding_time
      THEN IF validate_time_format(message_text)
           THEN [file |-> add_feeding(file, get_amsterdam_time, ud.feeding_amount,
                                      user_id, message_text, io),
                 ud |-> [ud EXCEPT !.awaiting_feeding_time = FALSE,
                                   !.feeding_amount = None],
                 reply |-> "feeding_added"]
           ELSE Rejected(file, ud, "invalid_time")
      ELSE IF ud.awaiting_temperature
      THEN LET temperature == ParseFloat(message_text)
           IN  IF ~ temperature.ok
               THEN Rejected(file, ud, "temperature_not_a_number")
               ELSE IF TemperatureInRange(temperature.value)
                    THEN [file |-> add_temperature(file, get_amsterdam_time,
                                                   temperature.value, user_id, io),
                          ud |-> [ud EXCEPT !.awaiting_temperature = FALSE],
                          reply |-> "temperature_added"]
                    ELSE Rejected(file, ud, "temperature_out_of_range")
      ELSE [file |-> file, ud |-> ud, reply |-> "help"]

handle_message(user_id, message_text, io) ==
  LET eff == MessageEffect(user_id, message_text, io)
  IN  /\ file' = eff.file
      /\ EventCount(file'.data) <= MaxEvents
      /\ user_data' = [user_data EXCEPT ![user_id] = eff.ud]
      /\ last' = Answer("handle_message", eff.reply)
      /\ UNCHANGED <<now, writers>>

\* handle_callback: the file afterwards and what the handler got back.
CallbackEffect(user_id, callback_data, io) ==
  IF ~ is_authorized(user_id)
  THEN [file |-> file, ret |-> "unauthorized", entry |-> NoEntry, error |-> NoError,
        stats |-> NoStats]
  ELSE IF callback_data[1] = "diaper" /\ Len(callback_data) >= 2
  THEN LET diaper_type == callback_data[2]
       IN  [file |-> add_diaper_change(file, get_amsterdam_time, diaper_type,
                                       user_id, io),
            ret |-> "diaper_added", entry |-> NoEntry, error |-> NoError,
            stats |-> NoStats]
  ELSE IF callback_data[1] = "delete" /\ Len(callback_data) >= 2
  THEN LET entry_type == callback_data[2]
           r == delete_last_entry(file, get_amsterdam_time, entry_type, io)
       IN  [file |-> r.file,
            ret |-> IF r.error # NoError THEN "delete_failed" ELSE "deleted",
            entry |-> r.entry, error |-> r.error, stats |-> NoStats]
  ELSE IF callback_data[1] = "stats" /\ Len(callback_data) >= 2
  THEN LET period == callback_data[2]
       IN  IF period \in {"week", "month", "all"}
           THEN [file |-> file,
                 ret |-> CASE period = "week" -> "stats_sent_week"
                           [] period = "month" -> "stats_sent_month"
                           [] period = "all" -> "stats_sent",
                 entry |-> NoEntry, error |-> NoError,
                 stats |-> CASE period = "week" ->
                                  get_weekly_stats(file, get_amsterdam_time)
                             [] period = "month" ->
                                  get_monthly_stats(file, get_amsterdam_time)
                             [] period = "all" ->
                                  get_all_time_stats(file, get_amsterdam_time)]
           ELSE [file |-> file, ret |-> "invalid_period", entry |-> NoEntry,
                 error |-> NoError, stats |-> NoStats]
  ELSE [file |-> file, ret |-> "ignored", entry |-> NoEntry, error |-> NoError,
        stats |-> NoStats]

handle_callback(user_id, callback_data, io) ==
  LET eff == CallbackEffect(user_id, callback_data, io)
  IN  /\ file' = eff.file
      /\ EventCount(file'.data) <= MaxEvents
      /\ last' = [op |-> "handle_callback", ret |-> eff.ret,
                  entry |-> eff.entry, error |-> eff.error, stats |-> eff.stats]
      /\ UNCHANGED <<now, user_data, writers>>

\* One bot process, storage that reads and writes without failure.
Next ==
  \/ Tick
  \/ \E u \in AUTHORIZED_USER_IDS : bottle_command(u)
  \/ \E u \in AUTHORIZED_USER_IDS : temperature_command(u)
  \/ \E u \in AUTHORIZED_USER_IDS, text \in MessageTexts : handle_message(u, text, "ok")
  \/ \E u \in AUTHORIZED_USER_IDS, data \in CallbackData : handle_callback(u, data, "ok")

Spec == Init /\ [][Next]_vars

\* One bot process whose writes of the file can fail.
NextFault ==
  \/ Tick
  \/ \E u \in AUTHORIZED_USER_IDS : bottle_command(u)
  \/ \E u \in AUTHORIZED_USER_IDS : temperature_command(u)
  \/ \E u \in AUTHORIZED_USER_IDS, text \in MessageTexts, io \in IoOutcomes :
        handle_message(u, text, io)
  \/ \E u \in AUTHORIZED_USER_IDS, data \in CallbackData, io \in IoOutcomes :
        handle_callback(u, data, io)

SpecFault == Init /\ [][NextFault]_vars

\* One bot process whose users log diapers and temperatures, delete, and ask
\* for the all-time statistics.
NextStats ==
  \/ Tick
  \/ \E u \in AUTHORIZED_USER_IDS : temperature_command(u)
  \/ \E u \in AUTHORIZED_USER_IDS : handle_message(u, T_36, "ok")
  \/ \E u \in AUTHORIZED_USER_IDS, data \in CallbackData \cup StatsCallbackData :
        handle_callback(u, data, "ok")

SpecStats == Init /\ [][NextStats]_vars

\* One bot process whose users log feedings and temperatures (the texts are an
\* amount or a temperature, another temperature, and a time) and ask for the
\* statistics of the week, the month and all time.
NextPeriod ==
  \/ Tick
  \/ \E u \in AUTHORIZED_USER_IDS : bottle_command(u)
  \/ \E u \in AUTHORIZED_USER_IDS : temperature_command(u)
  \/ \E u \in AUTHORIZED_USER_IDS, text \in {T_36, T_37c5, T_1000} :
        handle_message(u, text, "ok")
  \/ \E u \in AUTHORIZED_USER_IDS, data \in PeriodCallbackData :
        handle_callback(u, data, "ok")
SpecPeriod == Init /\ [][NextPeriod]_vars

(***************************************************************************)
(* Two processes on the same file (a second bot instance): each runs the   *)
(* load-mutate-save cycle of a store operation with the load and the save  *)
(* as separate steps, so that the cycles can interleave.                   *)
(***************************************************************************)
WriterOps ==
  {"add_feeding", "add_diaper_change", "add_temperature",
   "delete_drink", "delete_diaper"}

\* The cycle of op from its load to just before its save, at clock reading t:
\* the log it will save and whether it saves at all.
WriterMutation(op, feeding_data, t) ==
  LET today == StrfDate(t.date)
      user_id == CHOOSE u \in AUTHORIZED_USER_IDS : TRUE
      added(entry) == [saves |-> TRUE, data |-> AppendEntry(feeding_data, today, entry)]
      deleted(kind) == LET r == DeleteLookup(feeding_data, today, kind)
                       IN  [saves |-> r.saves, data |-> r.data]
  IN  CASE op = "add_feeding" -> added(FeedingEntry(t, 36, user_id, T_930))
        [] op = "add_diaper_change" -> added(DiaperEntry(t, "peed", user_id))
        [] op = "add_temperature" -> added(TemperatureEntry(t, 360, user_id))
        [] op = "delete_drink" -> deleted("drink")
        [] op = "delete_diaper" -> deleted("diaper")

\* The change of the number of events that op makes when it saves.
WriterDelta(op) ==
  IF op \in {"add_feeding", "add_diaper_change", "add_temperature"} THEN 1 ELSE 0 - 1

\* A process enters a cycle: it loads the file and mutates its own copy.
WriterLoad(w, op) ==
  /\ writers[w].pc = "idle"
  /\ LET snap == load_feeding_data(file).data
         r == WriterMutation(op, snap, get_amsterdam_time)
     IN  /\ EventCount(r.data) <= MaxEvents
         /\ writers' = [writers EXCEPT ![w] =
                          [pc |-> IF r.saves THEN "loaded" ELSE "done", op |-> op,
                           snap |-> snap, local |-> r.data, saved |-> FALSE]]
  /\ last' = Answer("load", w)
  /\ UNCHANGED <<file, now, user_data>>

\* The process saves its copy: save_feeding_data(feeding_data).
WriterSave(w) ==
  /\ writers[w].pc = "loaded"
  /\ file' = save_feeding_data(file, writers[w].local, "ok")
  /\ writers' = [writers EXCEPT ![w].pc = "done", ![w].saved = TRUE]
  /\ last' = Answer("save", w)
  /\ UNCHANGED <<now, user_data>>

\* The operation has returned; a later one starts a new cycle.
WriterReturn(w) ==
  /\ writers[w].pc = "done"
  /\ writers' = [writers EXCEPT ![w] = IdleWriter]
  /\ last' = Answer("return", w)
  /\ UNCHANGED <<file, now, user_data>>

NextRace ==
  \/ \E w \in Writers, op \in WriterOps : WriterLoad(w, op)
  \/ \E w \in Writers : WriterSave(w)
  \/ \E w \in Writers : WriterReturn(w)

SpecRace == Init /\ [][NextRace]_vars

\* A cycle with an await between its load and its save: the invocation either
\* loads and mutates its copy, or saves the copy it made earlier.
WriterCycle_suspended(w, op) == WriterLoad(w, op) \/ WriterSave(w)

\* A handler invocation of the one bot process runs its load-mutate-save
\* cycle: the add_* and delete_last_entry methods are plain functions that
\* the handler calls without an await, so the cycle is one step of the event
\* loop.
WriterCycle(w, op) ==
  /\ writers[w].pc = "idle"
  /\ LET snap == load_feeding_data(file).data
         r == WriterMutation(op, snap, get_amsterdam_time)
     IN  /\ EventCount(r.data) <= MaxEvents
         /\ file' = IF r.saves THEN save_feeding_data(file, r.data, "ok") ELSE file
         /\ writers' = [writers EXCEPT ![w] =
                          [pc |-> "done", op |-> op, snap |-> snap,
                           local |-> r.data, saved |-> r.saves]]
  /\ last' = Answer("cycle", w)
  /\ UNCHANGED <<now, user_data>>

\* One bot process whose event loop runs several handler invocations.
NextLoop ==
  \/ \E w \in Writers, op \in WriterOps : WriterCycle(w, op)
  \/ \E w \in Writers : WriterReturn(w)

SpecLoop == Init /\ [][NextLoop]_vars

(***************************************************************************)
(* The relative-time formatter: format_time_difference(past_time_str).     *)
(***************************************************************************)
\* str(n) of a non-negative int.
RECURSIVE IntToStr(_)
IntToStr(n) ==
  IF n < 10 THEN <<Digits[n + 1]>>
  ELSE IntToStr(n \div 10) \o <<Digits[(n % 10) + 1]>>

\* "tijd onbekend"
TimeUnknown == <<"tijd onbekend">>

\* f"{hours}u{minutes}m geleden" whatever hours and minutes are.
RenderDuration_both(total_minutes) ==
  IntToStr(total_minutes \div 60) \o <<"u">> \o IntToStr(total_minutes % 60)
    \o <<"m", " geleden">>

\* The result string: f"{hours}u{minutes}m geleden", f"{hours}u geleden" or
\* f"{minutes}m geleden".
RenderDuration(total_minutes) ==
  LET hours == total_minutes \div 60
      minutes == total_minutes % 60
  IN  IF hours > 0
      THEN IF minutes > 0
           THEN IntToStr(hours) \o <<"u">> \o IntToStr(minutes) \o <<"m", " geleden">>
           ELSE IntToStr(hours) \o <<"u", " geleden">>
      ELSE IntToStr(minutes) \o <<"m", " geleden">>

\* round(time_diff.total_seconds() / 60) in place of int(...).
TotalMinutes_rounded(seconds) == (seconds + 30) \div 60

\* int(time_diff.total_seconds() / 60) of a non-negative difference.
TotalMinutes(seconds) == seconds \div 60

\* datetime.replace(hour=h, minute=m, second=s): the new datetime, or the
\* ValueError of a field out of range.
ReplaceTime(dt, h, m, s) ==
  IF h \in 0..23 /\ m \in 0..59 /\ s \in 0..59
  THEN [exc |-> None, date |-> dt.date, time |-> <<h, m, s>>]
  ELSE [exc |-> "ValueError", date |-> dt.date, time |-> dt.time]

\* datetime.replace(day=d): the new datetime, or the ValueError of a day that
\* the month does not have.
ReplaceDay(dt, d) ==
  IF d \in 1..DaysInMonth(dt.date.year, dt.date.month)
  THEN [exc |-> None, date |-> [dt.date EXCEPT !.day = d], time |-> dt.time]
  ELSE [exc |-> "ValueError", date |-> dt.date, time |-> dt.time]

\* A difference that counts each calendar day between the two datetimes twice.
DiffSeconds_twoDays(a, b) ==
  2 * 86400 * (a.date.day - b.date.day) + Seconds(a.time) - Seconds(b.time)

\* (a - b).total_seconds() of two datetimes of the same month and year.
DiffSeconds(a, b) ==
  86400 * (a.date.day - b.date.day) + Seconds(a.time) - Seconds(b.time)

\* The body of the try block of format_time_difference at clock reading t: the
\* string it returns, or the exception that leaves the block.
TimeDifference(t, past_time_str) ==
  LET time_parts == Split(past_time_str, ":")
      ints == [i \in 1..Len(time_parts) |-> ParseInt(time_parts[i])]
      failed == [exc |-> "ValueError", value |-> <<>>]
  IN  IF Len(time_parts) \notin {2, 3} THEN failed
      ELSE IF \E i \in 1..Len(time_parts) : ~ ints[i].ok THEN failed
      ELSE
        LET past_hour == ints[1].value
            past_minute == ints[2].value
            past_second == IF Len(time_parts) = 3 THEN ints[3].value ELSE 0
            current_datetime == [date |-> t.date, time |-> t.time]
            past_datetime == ReplaceTime(t, past_hour, past_minute, past_second)
        IN  IF past_datetime.exc # None THEN failed
            ELSE IF Seconds(past_datetime.time) > Seconds(current_datetime.time)
            THEN LET yesterday == ReplaceDay(past_datetime, past_datetime.date.day - 1)
                 IN  IF yesterday.exc # None THEN failed
                     ELSE [exc |-> None,
                           value |-> RenderDuration(TotalMinutes(
                                       DiffSeconds(current_datetime, yesterday)))]
            ELSE [exc |-> None,
                  value |-> RenderDuration(TotalMinutes(
                              DiffSeconds(current_datetime, past_datetime)))]

\* format_time_difference(past_time_str): what the caller gets and the
\* exception that reaches it (None: it returns normally).
format_time_difference(t, past_time_str) ==
  LET r == TimeDifference(t, past_time_str)
  IN  IF r.exc \in {"ValueError", "AttributeError"}
      THEN [raised |-> None, value |-> TimeUnknown]
      ELSE [raised |-> r.exc, value |-> r.value]

\* The clock readings the formatter is evaluated at.
FormatterClockTimes ==
  {<<0, 0, 0>>, <<0, 10, 0>>, <<9, 45, 7>>, <<11, 30, 0>>, <<23, 59, 59>>}

P_2350 == <<"2", "3", ":", "5", "0">>
P_0900 == <<"0", "9", ":", "0", "0">>
P_0010 == <<"0", "0", ":", "1", "0">>
P_093000 == <<"0", "9", ":", "3", "0", ":", "0", "0">>
P_094507 == <<"0", "9", ":", "4", "5", ":", "0", "7">>
P_094508 == <<"0", "9", ":", "4", "5", ":", "0", "8">>
P_93000 == <<"9", ":", "3", "0", ":", "0", "0">>
P_2400 == <<"2", "4", ":", "0", "0">>
P_1260 == <<"1", "2", ":", "6", "0">>
P_123060 == <<"1", "2", ":", "3", "0", ":", "6", "0">>
P_neg == <<"-", "1", ":", "3", "0">>
P_word == <<"n", "u">>
P_hm_word == <<"1", "2", ":", "x", "x">>
P_one == <<"1", "2">>
P_four == <<"1", ":", "2", ":", "3", ":", "4">>
P_empty == <<>>

\* past_time_str: the time fields the log holds, and strings that are no
\* time of day.
PastTimeStrings ==
  {P_2350, P_0900, P_0010, P_093000, P_094507, P_094508, P_93000,
   P_2400, P_1260, P_123060, P_neg, P_word, P_hm_word, P_one, P_four, P_empty}

\* The formatter is evaluated at any reading of any date.
InitFormatter ==
  /\ file = MissingFile
  /\ now \in [day : 0..MaxDay, time : FormatterClockTimes]
  /\ user_data = [u \in UserIds |-> NoUserData]
  /\ last = Answer("init", None)
  /\ writers = [w \in Writers |-> IdleWriter]

\* A call format_time_difference(past_time_str).
FormatTimeDifference(past_time_str) ==
  /\ LET r == format_time_difference(get_amsterdam_time, past_time_str)
     IN  last' = [op |-> "format_time_difference", ret |-> r.value,
                  entry |-> NoEntry, error |-> NoError,
                  arg |-> past_time_str, raised |-> r.raised]
  /\ UNCHANGED <<file, now, user_data, writers>>

NextFormatter == \E past_time_str \in PastTimeStrings : FormatTimeDifference(past_time_str)

SpecFormatter == InitFormatter /\ [][NextFormatter]_vars

(***************************************************************************)
(* The per-date queries over a stored log: the logs are the buckets of one *)
(* date that storage can hold, with the events the bot writes and with     *)
(* diaper events of the legacy type 'urine'.                               *)
(***************************************************************************)
\* A stored bucket holds at most this many events.
MaxBucketLen == 4

\* The clock reading and the user of the stored events.
StoredAt == [date |-> FirstDate, time |-> <<9, 45, 7>>]

StoredBy == CHOOSE u \in AUTHORIZED_USER_IDS : TRUE

\* The events of the stored buckets.
StoredEvents ==
  {FeedingEntry(StoredAt, 36, StoredBy, None),
   FeedingEntry(StoredAt, 120, StoredBy, T_1000),
   TemperatureEntry(StoredAt, 372, StoredBy),
   DiaperEntry(StoredAt, "pooped", StoredBy),
   DiaperEntry(StoredAt, "peed", StoredBy),
   DiaperEntry(StoredAt, "both", StoredBy),
   DiaperEntry(StoredAt, "urine", StoredBy)}

StoredBuckets == UNION {[1..n -> StoredEvents] : n \in 0..MaxBucketLen}

\* date_str: the date of the stored bucket and a date without a bucket.
QueryDates == {StrfDate(FirstDate), StrfDate(NextDate(FirstDate))}

\* Storage holds no file, or the log of one date with any stored bucket.
InitQuery ==
  /\ file \in {MissingFile} \cup
              {[state |-> "json", data |-> [k \in {StrfDate(FirstDate)} |-> b]] :
                 b \in StoredBuckets}
  /\ now = [day |-> 0, time |-> StoredAt.time]
  /\ user_data = [u \in UserIds |-> NoUserData]
  /\ last = Answer("init", None)
  /\ writers = [w \in Writers |-> IdleWriter]

\* What a query returned for date_str.
QueryAnswer(op, date_str, result) ==
  [op |-> op, ret |-> result, entry |-> NoEntry, error |-> NoError, arg |-> date_str]

\* A call get_total_ml_for_date(date_str).
GetTotalMl(date_str) ==
  /\ last' = QueryAnswer("get_total_ml_for_date", date_str,
                         get_total_ml_for_date(file, date_str))
  /\ UNCHANGED <<file, now, user_data, writers>>

\* A call get_temperature_for_date(date_str).
GetTemperatures(date_str) ==
  /\ last' = QueryAnswer("get_temperature_for_date", date_str,
                         get_temperature_for_date(file, date_str))
  /\ UNCHANGED <<file, now, user_data, writers>>

\* A call get_diaper_data_for_date(date_str).
GetDiaperData(date_str) ==
  /\ last' = QueryAnswer("get_diaper_data_for_date", date_str,
                         get_diaper_data_for_date(file, date_str))
  /\ UNCHANGED <<file, now, user_data, writers>>

\* A call get_today_events().
GetTodayEvents ==
  /\ last' = QueryAnswer("get_today_events", StrfDate(get_amsterdam_time.date),
                         get_today_events(file, get_amsterdam_time))
  /\ file' = get_today_events_storage(file, get_amsterdam_time)
  /\ UNCHANGED <<now, user_data, writers>>

NextQuery ==
  \/ GetTodayEvents
  \/ \E date_str \in QueryDates : GetTotalMl(date_str)
  \/ \E date_str \in QueryDates : GetTemperatures(date_str)
  \/ \E date_str \in QueryDates : GetDiaperData(date_str)

SpecQuery == InitQuery /\ [][NextQuery]_vars

(***************************************************************************)
(* Properties of the event store and the query layer.                      *)
(***************************************************************************)
\* The log a reader gets from the file now.
Data(f) == load_feeding_data(f).data

TodayKey == StrfDate(get_amsterdam_time.date)

TodayBucket == Bucket(Data(file), TodayKey)

Range(s) == {s[i] : i \in 1..Len(s)}

\* The multiset of the elements of a sequence.
SeqToBag(s) == [e \in Range(s) |-> Cardinality({i \in 1..Len(s) : s[i] = e})]

\* The time of day a time field stands for, in seconds: its fields parsed as
\* hour, minute and (when present) second.
ParsedTime(time) ==
  LET p == Split(time, ":")
  IN  3600 * DecVal(p[1]) + 60 * DecVal(p[2])
        + (IF Len(p) >= 3 THEN DecVal(p[3]) ELSE 0)

\* A zero-padded 24-hour HH:MM:SS string.
IsPaddedTime(time) ==
  /\ Len(time) = 8
  /\ \A i \in {1, 2, 4, 5, 7, 8} : IsDigit(time[i])
  /\ time[3] = ":" /\ time[6] = ":"
  /\ DecVal(SubSeq(time, 1, 2)) <= 23
  /\ DecVal(SubSeq(time, 4, 5)) <= 59
  /\ DecVal(SubSeq(time, 7, 8)) <= 59

Deleted == last.op = "handle_callback" /\ last.ret = "deleted"

Appended == last.ret \in {"feeding_added", "temperature_added", "diaper_added"}

\* The kinds a delete is asked for: the three of the keyboard and one other.
DeleteKinds == {"drink", "diaper", "temperature", "nap"}

RejectionReplies ==
  {"amount_not_a_number", "amount_out_of_range", "invalid_time",
   "temperature_not_a_number", "temperature_out_of_range"}

\* C1: after delete_last_entry(k) returned a record, no event of kind k left in
\* today's bucket is chronologically later (by parsed hour, minute, second)
\* than the record it removed and returned.
C1_DeleteRemovesChronologicallyLast ==
  Deleted =>
    \A i \in 1..Len(TodayBucket) :
       TodayBucket[i].type = last.entry.type =>
         ParsedTime(TodayBucket[i].time) <= ParsedTime(last.entry.time)

\* C2: a delete_last_entry(k) that returns a record takes exactly that one
\* record out of what get_today_events() shows: the count of kind k drops by
\* one and every other event is still there as often as before.
C2_DeleteRemovesExactlyOne ==
  [][ (last'.op = "handle_callback" /\ last'.ret = "deleted") =>
        LET before == get_today_events(file, get_amsterdam_time)
            after == get_today_events(file', get_amsterdam_time')
            k == last'.entry.type
        IN  /\ Len(TypeEntries(after, k)) = Len(TypeEntries(before, k)) - 1
            /\ Len(after) = Len(before) - 1
            /\ SeqToBag(before) = SeqToBag(after) (+) SetToBag({last'.entry}) ]_vars

\* C2 witness: a delete has just returned a record while today's bucket still
\* holds a record identical to it and a record of another kind.
C2_Witness ==
  /\ Deleted
  /\ \E i \in 1..Len(TodayBucket) : TodayBucket[i] = last.entry
  /\ \E j \in 1..Len(TodayBucket) : TodayBucket[j].type # last.entry.type

\* C3: an append leaves the file holding the previous log with exactly one new
\* event at the end of today's bucket (created when the key was absent); every
\* existing event and every other date key is unchanged.
C3_AppendAddsOneAtEnd ==
  [][ (last'.ret \in {"feeding_added", "temperature_added", "diaper_added"}) =>
        LET old == Data(file)
            new == Data(file')
            today == TodayKey
            n == Len(Bucket(old, today))
        IN  /\ file'.state = "json"
            /\ DOMAIN new = DOMAIN old \cup {today}
            /\ \A k \in DOMAIN old \ {today} : new[k] = old[k]
            /\ Len(new[today]) = n + 1
            /\ SubSeq(new[today], 1, n) = Bucket(old, today)
            /\ new[today][n + 1].type =
                 (CASE last'.ret = "feeding_added" -> "drink"
                    [] last'.ret = "temperature_added" -> "temperature"
                    [] last'.ret = "diaper_added" -> "diaper") ]_vars

\* C3 witness: an append has just created today's bucket, with its one event,
\* in a log that already held the bucket of an earlier date.
C3_Witness ==
  /\ Appended
  /\ Len(TodayBucket) = 1
  /\ \E k \in DOMAIN Data(file) : k # TodayKey /\ Len(Data(file)[k]) >= 2

\* C5: no step changes the bucket of a date other than the current civil date
\* (the date the step's handler reads from the clock): every other key stays
\* in the log with the same events.
C5_OtherDatesUntouched ==
  [][ \A k \in DOMAIN Data(file) :
        (k # TodayKey \/ k # TodayKey') =>
          (k \in DOMAIN Data(file') /\ Data(file')[k] = Data(file)[k]) ]_vars

\* C5 witness: after the date advanced, a delete and an append have changed
\* today's bucket while the log holds the bucket of the earlier date.
C5_Witness ==
  /\ now.day > 0
  /\ Deleted
  /\ Len(TodayBucket) >= 1
  /\ \E k \in DOMAIN Data(file) : k # TodayKey /\ Len(Data(file)[k]) >= 1

\* C6: delete_last_entry(k) with nothing to delete returns no record and a
\* reason, and does not save: 'no data for today' when today's key is absent,
\* the distinct 'no events of this kind today' when the bucket exists without
\* an event of kind k; for every k, a kind of no event included.
C6_NothingToDelete ==
  \A k \in DeleteKinds :
    LET r == delete_last_entry(file, get_amsterdam_time, k, "ok")
    IN  /\ TodayKey \notin DOMAIN Data(file) =>
             /\ r.entry = NoEntry /\ r.error = NoDataToday
             /\ ~ r.saved /\ r.file = file
        /\ (TodayKey \in DOMAIN Data(file) /\ TypeEntries(TodayBucket, k) = <<>>) =>
             /\ r.entry = NoEntry /\ r.error = NoEntriesToday(k)
             /\ ~ r.saved /\ r.file = file
        /\ NoEntriesToday(k) # NoDataToday
        /\ (last.op = "handle_callback" /\ last.ret = "delete_failed") =>
             last.entry = NoEntry /\ last.error # NoError

\* C6 witness: a delete of a kind of no event has just answered 'no events of
\* this kind today' on a bucket that holds events.
C6_Witness ==
  /\ last.op = "handle_callback" /\ last.ret = "delete_failed"
  /\ last.error = NoEntriesToday("nap")
  /\ Len(TodayBucket) >= 1

\* C8: a message rejected by input validation leaves the file and the user's
\* dialog state as they were; 600 is rejected while an amount is awaited.
C8_RejectionChangesNothing ==
  [][ /\ (last'.op = "handle_message" /\ last'.ret \in RejectionReplies) =>
           (file' = file /\ user_data' = user_data)
      /\ \A u \in AUTHORIZED_USER_IDS :
           user_data[u].awaiting_feeding_amount =>
             MessageEffect(u, T_600, "ok") =
               [file |-> file, ud |-> user_data[u], reply |-> "amount_out_of_range"]
    ]_vars

\* C8 witness: an amount has just been rejected as out of range while the log
\* holds events and the amount prompt is still pending.
C8_Witness ==
  /\ last.op = "handle_message" /\ last.ret = "amount_out_of_range"
  /\ \E u \in AUTHORIZED_USER_IDS : user_data[u].awaiting_feeding_amount
  /\ EventCount(Data(file)) >= 1

\* C9: the time field of every stored event is a zero-padded 24-hour
\* HH:MM:SS string.
C9_TimesZeroPadded ==
  \A k \in DOMAIN Data(file) :
    \A i \in 1..Len(Data(file)[k]) : IsPaddedTime(Data(file)[k][i].time)

\* C10: get_today_events() returns a permutation of today's bucket in
\* chronological, non-decreasing time-of-day order.
C10_TodayEventsChronological ==
  LET events == get_today_events(file, get_amsterdam_time)
  IN  /\ SeqToBag(events) = SeqToBag(TodayBucket)
      /\ \A i \in 1..(Len(events) - 1) :
           ParsedTime(events[i].time) <= ParsedTime(events[i + 1].time)

\* C4: the last save wins. After a process saved, the file holds exactly the
\* log that process built from what it had loaded; when the other process had
\* loaded the same log and saved its own mutation in between, the file
\* reflects one mutation only.
C4_LastSaveWins ==
  \A w \in Writers :
    (last.op = "save" /\ last.ret = w) =>
      /\ file = [state |-> "json", data |-> writers[w].local]
      /\ \A v \in Writers \ {w} :
           (writers[v].pc = "done" /\ writers[v].saved
              /\ writers[v].snap = writers[w].snap) =>
             /\ EventCount(file.data) =
                  EventCount(writers[w].snap) + WriterDelta(writers[w].op)
             /\ (writers[v].local # writers[w].local => file.data # writers[v].local)

\* C4 witness: both processes loaded the same log, both appended a different
\* event and both saved; the file holds one event more, not two.
C4_Witness ==
  \E w \in Writers : \E v \in Writers \ {w} :
    /\ last.op = "save" /\ last.ret = w
    /\ writers[v].pc = "done" /\ writers[v].saved
    /\ writers[w].pc = "done" /\ writers[w].saved
    /\ writers[v].snap = writers[w].snap
    /\ writers[w].op = "add_feeding" /\ writers[v].op = "add_diaper_change"
    /\ EventCount(file.data) = EventCount(writers[w].snap) + 1
    /\ \A i \in 1..Len(TodayBucket) : TodayBucket[i].type # "diaper"

\* C7: load_feeding_data returns normally in every state of the file: the
\* empty mapping when the file is missing or unparseable, the stored mapping
\* otherwise.
C7_LoadNeverRaises ==
  LET r == load_feeding_data(file)
  IN  /\ r.raised = None
      /\ file.state \in {"missing", "corrupt"} => r.data = EmptyLog
      /\ file.state = "json" => r.data = file.data

\* C7 witness: the file is unparseable after a failed write, and a delete that
\* loaded it has answered 'no data for today'.
C7_Witness ==
  /\ file.state = "corrupt"
  /\ last.op = "handle_callback" /\ last.ret = "delete_failed"
  /\ last.error = NoDataToday

(***************************************************************************)
(* Properties of the relative-time formatter.                              *)
(***************************************************************************)
Formatted == last.op = "format_time_difference"

\* A time of day written HH:MM or HH:MM:SS: two or three fields of digits,
\* hour at most 23, minute and second at most 59.
IsTimeOfDay(s) ==
  LET p == Split(s, ":")
  IN  /\ Len(p) \in {2, 3}
      /\ \A i \in 1..Len(p) : AllDigits(p[i])
      /\ DecVal(p[1]) <= 23
      /\ DecVal(p[2]) <= 59
      /\ Len(p) = 3 => DecVal(p[3]) <= 59

\* A duration string: digits and unit letters, ending in " geleden".
IsDurationString(s) ==
  /\ Len(s) >= 3
  /\ s[Len(s)] = " geleden"
  /\ s[Len(s) - 1] \in {"u", "m"}
  /\ IsDigit(s[1])

\* C11: a time of day T later than the current time of day is taken as a time
\* of the previous calendar day: the result is now - T + 24h in whole minutes,
\* on every calendar date of now.
C11_LaterTimeIsYesterday ==
  (Formatted /\ IsTimeOfDay(last.arg) /\ ParsedTime(last.arg) > Seconds(now.time)) =>
    last.ret = RenderDuration((Seconds(now.time) + 86400 - ParsedTime(last.arg)) \div 60)

C13_ElapsedHoursAndMinutes ==
  /\ (Formatted /\ IsTimeOfDay(last.arg) /\ ParsedTime(last.arg) <= Seconds(now.time)) =>
       LET total == (Seconds(now.time) - ParsedTime(last.arg)) \div 60
           h == total \div 60
           m == total % 60
       IN  /\ (h > 0 /\ m > 0) =>
                last.ret = IntToStr(h) \o <<"u">> \o IntToStr(m) \o <<"m", " geleden">>
           /\ (h > 0 /\ m = 0) => last.ret = IntToStr(h) \o <<"u", " geleden">>
           /\ h = 0 => last.ret = IntToStr(m) \o <<"m", " geleden">>
  /\ (Formatted /\ last.arg = P_0900 /\ now.time = <<11, 30, 0>>) =>
       last.ret = <<"2", "u", "3", "0", "m", " geleden">>

\* C13 witness: "09:00" has been formatted at 11:30 as 2 hours 30 minutes.
C13_Witness ==
  /\ Formatted /\ last.arg = P_0900 /\ now.time = <<11, 30, 0>>
  /\ last.ret = <<"2", "u", "3", "0", "m", " geleden">>

\* C14: format_time_difference never raises; a string that is no valid time
\* of day gives the 'time unknown' sentinel and every valid one gives a
\* duration string.
C14_SentinelIffInvalid ==
  Formatted =>
    /\ last.raised = None
    /\ ~ IsTimeOfDay(last.arg) => last.ret = TimeUnknown
    /\ IsTimeOfDay(last.arg) => IsDurationString(last.ret)

(***************************************************************************)
(* Properties of the statistics series and the per-date queries.           *)
(***************************************************************************)
StatsSent == last.op = "handle_callback" /\ last.ret = "stats_sent"

\* a is an earlier calendar date than b.
DateLess(a, b) ==
  \/ a.year < b.year
  \/ a.year = b.year /\ a.month < b.month
  \/ a.year = b.year /\ a.month = b.month /\ a.day < b.day

\* C15: the date sequence that get_all_time_stats builds ends with today's
\* date, whatever the log: empty, without a key for today, or with an empty
\* bucket for today.
C15_AllTimeEndsWithToday ==
  StatsSent =>
    LET dates == last.stats.dates
    IN  /\ Len(dates) >= 1
        /\ dates[Len(dates)] = get_amsterdam_time.date

\* C15 witness: the all-time series has been built from a log whose bucket of
\* today is empty and which holds the bucket of an earlier date.
C15_Witness ==
  /\ StatsSent
  /\ TodayKey \in DOMAIN Data(file) /\ TodayBucket = <<>>
  /\ \E k \in DOMAIN Data(file) : k # TodayKey

\* C16: the date sequence of get_all_time_stats holds every date key of the
\* log, and today, in strictly ascending chronological order (so no date is
\* repeated).
C16_AllTimeDatesAscending ==
  StatsSent =>
    LET dates == last.stats.dates
    IN  /\ \A i \in 1..(Len(dates) - 1) : DateLess(dates[i], dates[i + 1])
        /\ \A k \in DOMAIN Data(file) : \E i \in 1..Len(dates) : StrfDate(dates[i]) = k
        /\ \E i \in 1..Len(dates) : dates[i] = get_amsterdam_time.date
        /\ \A i \in 1..Len(dates) :
             StrfDate(dates[i]) \in DOMAIN Data(file) \cup {TodayKey}

\* C16 witness: the all-time series has been built from a log with the keys
\* of two dates, today's among them, both with events.
C16_Witness ==
  /\ StatsSent
  /\ Cardinality(DOMAIN Data(file)) >= 2
  /\ TodayKey \in DOMAIN Data(file)
  /\ \A k \in DOMAIN Data(file) : Len(Data(file)[k]) >= 1
  /\ Len(last.stats.dates) = Cardinality(DOMAIN Data(file))

\* The bucket a query for last.arg reads; empty when the date has no key.
QueriedBucket == Bucket(Data(file), last.arg)

\* The number of events of a bucket that satisfy P.
CountEvents(bucket, P(_)) == Cardinality({i \in 1..Len(bucket) : P(bucket[i])})

\* The sum of amount_ml over the events of a bucket at the positions S.
RECURSIVE SumAmountAt(_, _)
SumAmountAt(bucket, S) ==
  IF S = {} THEN 0
  ELSE LET i == CHOOSE x \in S : TRUE
       IN  bucket[i].amount_ml + SumAmountAt(bucket, S \ {i})

IsDiaperOf(e, types) == e.type = "diaper" /\ e.diaper_type \in types

\* C17: get_total_ml_for_date(d) is the sum of amount_ml over exactly the
\* 'drink' events of d's bucket, and 0 when d has no bucket.
C17_TotalMlIsSumOfFeedings ==
  last.op = "get_total_ml_for_date" =>
    /\ last.ret = SumAmountAt(QueriedBucket,
                    {i \in 1..Len(QueriedBucket) : QueriedBucket[i].type = "drink"})
    /\ last.arg \notin DOMAIN Data(file) => last.ret = 0

\* C17 witness: the total has been taken of a bucket with two feedings of
\* different amounts, a temperature and a diaper event.
C17_Witness ==
  /\ last.op = "get_total_ml_for_date" /\ last.ret = 156
  /\ \E i \in 1..Len(QueriedBucket) : QueriedBucket[i].type = "temperature"
  /\ \E i \in 1..Len(QueriedBucket) : QueriedBucket[i].type = "diaper"

\* C18: a stored diaper event of the legacy type 'urine' counts as 'peed' in
\* get_diaper_data_for_date: a bucket of one pooped, two peed and one urine
\* gives {pooped: 1, peed: 3, both: 0}.
C18_UrineCountsAsPeed ==
  last.op = "get_diaper_data_for_date" =>
    /\ last.ret.peed = CountEvents(QueriedBucket, LAMBDA e : IsDiaperOf(e, {"peed", "urine"}))
    /\ (/\ Len(QueriedBucket) = 4
        /\ CountEvents(QueriedBucket, LAMBDA e : IsDiaperOf(e, {"pooped"})) = 1
        /\ CountEvents(QueriedBucket, LAMBDA e : IsDiaperOf(e, {"peed"})) = 2
        /\ CountEvents(QueriedBucket, LAMBDA e : IsDiaperOf(e, {"urine"})) = 1) =>
         last.ret = [pooped |-> 1, peed |-> 3, both |-> 0]

\* C19: get_diaper_data_for_date(d) counts, for each of pooped, peed and both,
\* the diaper events of d's bucket with exactly that diaper_type; nothing else
\* adds to a counter, so the counts sum to at most the number of diaper events.
C19_DiaperCountsExactTypes ==
  last.op = "get_diaper_data_for_date" =>
    /\ last.ret.pooped = CountEvents(QueriedBucket, LAMBDA e : IsDiaperOf(e, {"pooped"}))
    /\ last.ret.peed = CountEvents(QueriedBucket, LAMBDA e : IsDiaperOf(e, {"peed"}))
    /\ last.ret.both = CountEvents(QueriedBucket, LAMBDA e : IsDiaperOf(e, {"both"}))
    /\ DOMAIN last.ret = {"pooped", "peed", "both"}
    /\ last.ret.pooped + last.ret.peed + last.ret.both
         <= CountEvents(QueriedBucket, LAMBDA e : e.type = "diaper")

\* C19 witness: the tally has been taken of a bucket with a 'urine' diaper, a
\* 'peed' diaper and a feeding, and it sums to less than the diaper events.
C19_Witness ==
  /\ last.op = "get_diaper_data_for_date"
  /\ CountEvents(QueriedBucket, LAMBDA e : IsDiaperOf(e, {"urine"})) >= 1
  /\ CountEvents(QueriedBucket, LAMBDA e : IsDiaperOf(e, {"peed"})) >= 1
  /\ CountEvents(QueriedBucket, LAMBDA e : e.type = "drink") >= 1
  /\ last.ret.pooped + last.ret.peed + last.ret.both
       < CountEvents(QueriedBucket, LAMBDA e : e.type = "diaper")

\* C20: each per-date query gives the same zero or empty result when the date
\* has no key, when its bucket is empty and when its bucket holds only events
\* of other kinds.
C20_NoDataSameAsNoMatch ==
  /\ (last.op = "get_total_ml_for_date"
        /\ CountEvents(QueriedBucket, LAMBDA e : e.type = "drink") = 0) =>
       last.ret = 0
  /\ (last.op = "get_temperature_for_date"
        /\ CountEvents(QueriedBucket, LAMBDA e : e.type = "temperature") = 0) =>
       last.ret = <<>>
  /\ (last.op = "get_diaper_data_for_date"
        /\ CountEvents(QueriedBucket, LAMBDA e : e.type = "diaper") = 0) =>
       last.ret = [pooped |-> 0, peed |-> 0, both |-> 0]

\* C20 witness: the temperatures have been asked of a date whose bucket holds
\* feedings and diaper events only, and the answer is the empty list.
C20_Witness ==
  /\ last.op = "get_temperature_for_date" /\ last.ret = <<>>
  /\ last.arg \in DOMAIN Data(file)
  /\ CountEvents(QueriedBucket, LAMBDA e : e.type = "drink") >= 1
  /\ CountEvents(QueriedBucket, LAMBDA e : e.type = "diaper") >= 1

(***************************************************************************)
(* Properties of the weekly, monthly and all-time series.                  *)
(***************************************************************************)
SeriesSent ==
  /\ last.op = "handle_callback"
  /\ last.ret \in {"stats_sent", "stats_sent_week", "stats_sent_month"}

\* The temperature readings of the bucket of a date, in bucket order.
ReadingsOf(date) ==
  LET bucket == Bucket(Data(file), StrfDate(date))
      temps == SelectSeq(bucket, LAMBDA e : e.type = "temperature")
  IN  [i \in 1..Len(temps) |-> temps[i].temperature_celsius]

C26_PeriodCoversConsecutiveDates ==
  (last.op = "handle_callback" /\ last.ret \in {"stats_sent_week", "stats_sent_month"}) =>
    LET dates == last.stats.dates
        ml_totals == last.stats.ml_totals
    IN  /\ Len(dates) = (IF last.ret = "stats_sent_week" THEN 7 ELSE 30)
        /\ Len(ml_totals) = Len(dates)
        /\ dates[Len(dates)] = get_amsterdam_time.date
        /\ \A i \in 1..(Len(dates) - 1) : dates[i + 1] = NextDate(dates[i])
        /\ \A i \in 1..Len(dates) :
             ml_totals[i] = get_total_ml_for_date(file, StrfDate(dates[i]))

\* C26 witness: the monthly series has been built on the first day of a month
\* over a log with feedings on that day and on the day before.
C26_Witness ==
  /\ last.op = "handle_callback" /\ last.ret = "stats_sent_month"
  /\ get_amsterdam_time.date.day = 1
  /\ last.stats.ml_totals[30] > 0
  /\ last.stats.ml_totals[29] > 0
  /\ last.stats.ml_totals[28] = 0

(***************************************************************************)
(* Properties of the handlers when storage fails.                          *)
(***************************************************************************)
FailingIo == IoOutcomes \ {"ok"}

\* The file after a write that failed: untouched when open() failed,
\* truncated or partly written when the dump failed.
AfterFailedWrite(io) == IF io = "open_fails" THEN file ELSE CorruptFile

\* C22: a failing write is not propagated. In every state, whatever message
\* or callback would store or delete an event, the handler under a failing
\* write sends the same reply, leaves the same dialog state and (for a delete)
\* gets the same record and no reason as under a successful write, while the
\* file does not hold the mutation.
C22_SaveFailureNotReported ==
  \A u \in AUTHORIZED_USER_IDS, io \in FailingIo :
     /\ \A text \in MessageTexts :
           LET ok == MessageEffect(u, text, "ok")
               bad == MessageEffect(u, text, io)
           IN  ok.reply \in {"feeding_added", "temperature_added"} =>
                 /\ bad.reply = ok.reply
                 /\ bad.ud = ok.ud
                 /\ bad.file = AfterFailedWrite(io)
                 /\ bad.file # ok.file
     /\ \A data \in CallbackData :
           LET ok == CallbackEffect(u, data, "ok")
               bad == CallbackEffect(u, data, io)
           IN  ok.ret \in {"diaper_added", "deleted"} =>
                 /\ bad.ret = ok.ret
                 /\ bad.entry = ok.entry
                 /\ bad.error = NoError
                 /\ ok.ret = "deleted" => bad.entry # NoEntry
                 /\ bad.file = AfterFailedWrite(io)
                 /\ bad.file # ok.file

\* C22 witness: a delete has returned a record and no reason although its
\* write failed and left the file unparseable.
C22_Witness ==
  /\ Deleted /\ last.entry # NoEntry /\ last.error = NoError
  /\ file.state = "corrupt"

(***************************************************************************)
(* The JSON text of the file.  json.dump writes each value by its Python   *)
(* type and json.load reads each token by its form, so a value comes back  *)
(* as what its token looks like, not as what it was.                       *)
(***************************************************************************)
\* The Python value of a field of an event: amount_ml is an int (int(text)),
\* temperature_celsius a float (float(text), kept in tenths), every other
\* field a str. A str is the sequence of its characters; the kinds, initials
\* and diaper types are kept whole.
PyValue(field, v) ==
  CASE field = "amount_ml" -> [py |-> "int", v |-> v]
    [] field = "temperature_celsius" -> [py |-> "float", v |-> v]
    [] field = "time" -> [py |-> "str", v |-> v]
    [] OTHER -> [py |-> "str", v |-> <<v>>]

FromPyValue(field, pv) ==
  IF pv.py = "str" /\ field # "time" THEN pv.v[1] ELSE pv.v

\* format(x, 'g') in place of float.__repr__: 36.0 is written 36.
FloatRepr_short(tenths) ==
  IF tenths % 10 = 0 THEN IntToStr(tenths \div 10)
  ELSE IntToStr(tenths \div 10) \o <<".">> \o IntToStr(tenths % 10)

\* float.__repr__ of a float with one decimal: 36.0, 37.5.
FloatRepr(tenths) == IntToStr(tenths \div 10) \o <<".">> \o IntToStr(tenths % 10)

JsonString(s) == <<"\"">> \o s \o <<"\"">>

\* json.dump of one value.
JsonEncode(pv) ==
  CASE pv.py = "int" -> IntToStr(pv.v)
    [] pv.py = "float" -> FloatRepr(pv.v)
    [] pv.py = "str" -> JsonString(pv.v)

\* json.load of one token: a string between quotes, a float when the number
\* has a fraction, an int otherwise.
JsonDecode(token) ==
  IF token[1] = "\""
  THEN [py |-> "str", v |-> SubSeq(token, 2, Len(token) - 1)]
  ELSE LET p == Split(token, ".")
       IN  IF Len(p) = 2
           THEN [py |-> "float", v |-> 10 * DecVal(p[1]) + DecVal(p[2])]
           ELSE [py |-> "int", v |-> DecVal(token)]

\* json.dump(feeding_data, f, indent=2, default=str): the object of the date
\* keys, each with the array of its events, each event the object of its
\* fields.
JsonDumps(feeding_data) ==
  LET key(k) == SubSeq(k, 2, Len(k) - 1)
  IN  [k \in {JsonString(d) : d \in DOMAIN feeding_data} |->
         [i \in 1..Len(feeding_data[key(k)]) |->
            LET event == feeding_data[key(k)][i]
            IN  [field \in DOMAIN event |-> JsonEncode(PyValue(field, event[field]))]]]

\* json.load(f)
JsonLoads(text) ==
  [d \in {JsonDecode(k).v : k \in DOMAIN text} |->
     [i \in 1..Len(text[JsonString(d)]) |->
        LET object == text[JsonString(d)][i]
        IN  [field \in DOMAIN object |-> FromPyValue(field, JsonDecode(object[field]))]]]

\* save_feeding_data() with no argument: the log is loaded, dumped as it is,
\* and the file holds what a reader finds in the text.
SaveLoaded ==
  /\ file' = save_feeding_data(file, JsonLoads(JsonDumps(load_feeding_data(file).data)),
                               "ok")
  /\ last' = Answer("save_feeding_data", None)
  /\ UNCHANGED <<now, user_data, writers>>

\* One bot process whose writes can fail, and a caller of save_feeding_data().
NextRoundTrip ==
  \/ Tick
  \/ \E u \in AUTHORIZED_USER_IDS : bottle_command(u)
  \/ \E u \in AUTHORIZED_USER_IDS : temperature_command(u)
  \/ \E u \in AUTHORIZED_USER_IDS, text \in {T_36, T_36c0, T_37c5, T_1000}, io \in IoOutcomes :
        handle_message(u, text, io)
  \/ \E u \in AUTHORIZED_USER_IDS, data \in CallbackData, io \in IoOutcomes :
        handle_callback(u, data, io)
  \/ SaveLoaded

SpecRoundTrip == Init /\ [][NextRoundTrip]_vars

\* C23: save(load()) is a no-op on content: after save_feeding_data() with no
\* argument the file holds a log with the same date keys and, under each, the
\* same events in the same order as before.
C23_SaveLoadedKeepsLog ==
  [][last'.op = "save_feeding_data" =>
       /\ DOMAIN Data(file') = DOMAIN Data(file)
       /\ \A k \in DOMAIN Data(file) : Data(file')[k] = Data(file)[k]]_vars

\* C23 witness: save_feeding_data() has rewritten a log that holds a feeding,
\* a temperature reading and a diaper change.
C23_Witness ==
  /\ last.op = "save_feeding_data"
  /\ file.state = "json"
  /\ \E k \in DOMAIN file.data :
        \A kind \in {"drink", "temperature", "diaper"} :
           \E i \in 1..Len(file.data[k]) : file.data[k][i].type = kind

(***************************************************************************)
(* Properties of the dialogs of the front end.                             *)
(***************************************************************************)
\* Texts at and next to the bounds of the two ranges.
BoundaryTexts ==
  {<<"0">>, <<"1">>, <<"5", "0", "0">>, <<"5", "0", "1">>, <<"-", "5">>,
   <<"2", "9", ".", "9">>, <<"3", "0">>, <<"3", "0", ",", "0">>,
   <<"4", "5", ".", "0">>, <<"4", "5", ",", "1">>}

\* Every feeding of the log f has an amount of 1..500 ml and every
\* temperature event a reading of 30.0..45.0 degrees.
ValuesInRange(f) ==
  \A k \in DOMAIN Data(f) :
     \A i \in 1..Len(Data(f)[k]) :
        LET event == Data(f)[k][i]
        IN  /\ event.type = "drink" =>
                 event.amount_ml \in 1..MaxAmountMl
            /\ event.type = "temperature" =>
                 event.temperature_celsius \in MinTemperature..MaxTemperature

\* C24: in every reachable state every stored feeding has amount_ml an
\* integer in 1..500 and every stored temperature event has
\* temperature_celsius in 30.0..45.0, both bounds inclusive: whatever text
\* arrives next, at or next to the bounds, the amount carried into the time
\* step and the log written stay in range, 1, 500, 30.0 and 45.0 are taken
\* and 0, 501, 29.9 and 45.1 are refused.
C24_StoredValuesInRange ==
  /\ ValuesInRange(file)
  /\ \A u \in AUTHORIZED_USER_IDS :
        /\ \A text \in MessageTexts \cup BoundaryTexts :
              LET eff == MessageEffect(u, text, "ok")
              IN  /\ ValuesInRange(eff.file)
                  /\ eff.ud.awaiting_feeding_time =>
                       eff.ud.feeding_amount \in 1..MaxAmountMl
        /\ user_data[u].awaiting_feeding_amount =>
              /\ \A text \in {<<"1">>, <<"5", "0", "0">>} :
                    MessageEffect(u, text, "ok").reply = "ask_time"
              /\ \A text \in {<<"0">>, <<"5", "0", "1">>, <<"-", "5">>} :
                    MessageEffect(u, text, "ok").reply = "amount_out_of_range"
        /\ (/\ user_data[u].awaiting_temperature
            /\ ~ user_data[u].awaiting_feeding_amount
            /\ ~ user_data[u].awaiting_feeding_time) =>
              /\ \A text \in {<<"3", "0">>, <<"3", "0", ",", "0">>, <<"4", "5", ".", "0">>} :
                    MessageEffect(u, text, "ok").reply = "temperature_added"
              /\ \A text \in {<<"2", "9", ".", "9">>, <<"4", "5", ",", "1">>} :
                    MessageEffect(u, text, "ok").reply = "temperature_out_of_range"

\* C24 witness: the log holds a feeding and a temperature reading, and the
\* amount 600 has just been refused.
C24_Witness ==
  /\ last.op = "handle_message" /\ last.ret = "amount_out_of_range"
  /\ \E i \in 1..Len(TodayBucket) : TodayBucket[i].type = "drink"
  /\ \E i \in 1..Len(TodayBucket) : TodayBucket[i].type = "temperature"

\* The user is at the time step of the feeding dialog.
AtTimeStep(u) ==
  /\ ~ user_data[u].awaiting_feeding_amount
  /\ user_data[u].awaiting_feeding_time

\* C25: a feeding with a caller-supplied time T is filed under the key of the
\* current civil date with the time T followed by ':00', for every T that
\* validation accepts, earlier or later than the clock: the bucket of today
\* grows by that one event at its end and no other bucket changes.
C25_CustomTimeKeepsDate ==
  \A u \in AUTHORIZED_USER_IDS :
     AtTimeStep(u) =>
       \A text \in MessageTexts :
          validate_time_format(text) =>
            LET eff == MessageEffect(u, text, "ok")
                before == Data(file)
                after == Data(eff.file)
                bucket == after[TodayKey]
            IN  /\ eff.reply = "feeding_added"
                /\ DOMAIN after = DOMAIN before \cup {TodayKey}
                /\ \A k \in DOMAIN before \ {TodayKey} : after[k] = before[k]
                /\ Len(bucket) = Len(TodayBucket) + 1
                /\ SubSeq(bucket, 1, Len(TodayBucket)) = TodayBucket
                /\ bucket[Len(bucket)].type = "drink"
                /\ bucket[Len(bucket)].time = text \o <<":", "0", "0">>

\* C25 witness: on the second day a feeding has been filed under today's key
\* with the time 10:00:00 while the clock reads an earlier time, next to a
\* bucket of the day before.
C25_Witness ==
  /\ last.op = "handle_message" /\ last.ret = "feeding_added"
  /\ now.day = 1
  /\ Seconds(now.time) < 36000
  /\ Len(TodayBucket) > 0
  /\ TodayBucket[Len(TodayBucket)].type = "drink"
  /\ TodayBucket[Len(TodayBucket)].time = T_1000 \o <<":", "0", "0">>
  /\ Cardinality(DOMAIN Data(file)) = 2

(***************************************************************************)
(* A log that holds events this program did not write: an event of a kind  *)
(* it does not know, and a feeding with a field it does not know.          *)
(***************************************************************************)
LegacyNap ==
  [time |-> <<"0", "8", ":", "0", "0", ":", "0", "0">>, type |-> "nap",
   amount_ml |-> 50, temperature_celsius |-> 380, diaper_type |-> "peed"]

LegacyFeeding ==
  [time |-> <<"0", "8", ":", "3", "0", ":", "0", "0">>, type |-> "drink",
   amount_ml |-> 60, user |-> "A", note |-> "left"]

\* The file holds the log of the first date with a legacy bucket.
InitLegacy ==
  /\ \E bucket \in {<<LegacyNap>>, <<LegacyFeeding>>, <<LegacyNap, LegacyFeeding>>,
                     <<LegacyFeeding, LegacyNap>>} :
        file = [state |-> "json",
                data |-> [k \in {StrfDate(FirstDate)} |-> bucket]]
  /\ now \in [day : {0}, time : ClockTimes]
  /\ user_data = [u \in UserIds |-> NoUserData]
  /\ last = Answer("init", None)
  /\ writers = [w \in Writers |-> IdleWriter]

\* query.data that starts with "diaper_", as its pieces: a button of the
\* keyboard, a button of an older keyboard, and data no keyboard offers.
DiaperCallbackData ==
  {<<"diaper", "both">>, <<"diaper", "urine">>, <<"diaper", "xyz">>}

\* One bot process over a legacy log, with the keyboards of today and of before.
NextLegacy ==
  \/ Tick
  \/ \E u \in AUTHORIZED_USER_IDS : bottle_command(u)
  \/ \E u \in AUTHORIZED_USER_IDS : temperature_command(u)
  \/ \E u \in AUTHORIZED_USER_IDS, text \in {T_36, T_1000} :
        handle_message(u, text, "ok")
  \/ \E u \in AUTHORIZED_USER_IDS, data \in CallbackData \cup DiaperCallbackData :
        handle_callback(u, data, "ok")

SpecLegacy == InitLegacy /\ [][NextLegacy]_vars

KnownKinds == {"drink", "diaper", "temperature"}

KnownFields ==
  {"time", "type", "amount_ml", "user", "diaper_type", "temperature_celsius"}

IsLegacy(event) ==
  event.type \notin KnownKinds \/ DOMAIN event \ KnownFields # {}

\* The legacy events of a bucket whose kind is not the given one, in order.
LegacyNotOf(bucket, kind) ==
  SelectSeq(bucket, LAMBDA e : IsLegacy(e) /\ e.type # kind)

\* The log without the events of unknown kinds and without the unknown fields.
KnownPart(f) ==
  [state |-> f.state,
   data |-> [k \in DOMAIN f.data |->
               LET known == SelectSeq(f.data[k], LAMBDA e : e.type \in KnownKinds)
               IN  [i \in 1..Len(known) |->
                      [field \in DOMAIN known[i] \cap KnownFields |-> known[i][field]]]]]

TotalsIgnoreLegacy ==
  \A k \in DOMAIN Data(file) :
     /\ get_total_ml_for_date(file, k) = get_total_ml_for_date(KnownPart(file), k)
     /\ get_temperature_for_date(file, k) = get_temperature_for_date(KnownPart(file), k)
     /\ get_diaper_data_for_date(file, k) = get_diaper_data_for_date(KnownPart(file), k)

\* A handler's write keeps every date key and, under each, the legacy events
\* of every kind but the one it deleted, unchanged and in order.
LegacyWrittenBack ==
  last'.op \in {"handle_message", "handle_callback"} =>
    /\ DOMAIN Data(file) \subseteq DOMAIN Data(file')
    /\ \A k \in DOMAIN Data(file) :
          LegacyNotOf(Data(file')[k], last'.entry.type)
            = LegacyNotOf(Data(file)[k], last'.entry.type)

\* C27: events of an unknown kind and unknown fields on events are never
\* rejected and never lost: every append and every delete of another kind
\* writes them back unchanged, and the per-date total, readings and tally are
\* those of the log without them.
C27_LegacyEventsKept == [] TotalsIgnoreLegacy /\ [][LegacyWrittenBack]_vars

\* C27 witness: a diaper change has been added and deleted again next to a
\* nap and a feeding with a note, and both are still in today's bucket.
C27_Witness ==
  /\ Deleted /\ last.entry.type = "diaper"
  /\ now.day = 0
  /\ TodayBucket \in {<<LegacyNap, LegacyFeeding>>, <<LegacyFeeding, LegacyNap>>}

(***************************************************************************)
(* The dialogs of an authorized user next to a user who is not authorized. *)
(***************************************************************************)
DialogTexts == {T_36, T_120, T_600, T_1000}

\* One bot process that both users talk to.
NextDialog ==
  \/ Tick
  \/ \E u \in UserIds : bottle_command(u)
  \/ \E u \in UserIds : temperature_command(u)
  \/ \E u \in UserIds, text \in DialogTexts : handle_message(u, text, "ok")
  \/ \E u \in UserIds, data \in CallbackData : handle_callback(u, data, "ok")

SpecDialog == Init /\ [][NextDialog]_vars

\* A command, message or callback of user u.
UpdateFrom(u) ==
  \/ bottle_command(u)
  \/ temperature_command(u)
  \/ \E text \in DialogTexts : handle_message(u, text, "ok")
  \/ \E data \in CallbackData : handle_callback(u, data, "ok")

\* C28: no command, message or callback of an unauthorized user changes the
\* durable log or a dialog flag of any user, and the dialog flags of an
\* unauthorized user are never set.
C28_UnauthorizedChangesNothing ==
  /\ [] (\A u \in OtherUserIds : user_data[u] = NoUserData)
  /\ [][\A u \in OtherUserIds :
          UpdateFrom(u) =>
            /\ file' = file
            /\ user_data' = user_data
            /\ last'.ret = "unauthorized"]_vars

\* C28 witness: the unauthorized user has been turned away while the log
\* holds an event and the authorized user is in the middle of a feeding
\* dialog.
C28_Witness ==
  /\ last.ret = "unauthorized"
  /\ last.op = "handle_callback"
  /\ Len(TodayBucket) > 0
  /\ \E u \in AUTHORIZED_USER_IDS : user_data[u].awaiting_feeding_time

\* The number of feedings a log holds.
FeedingCount(data) ==
  Cardinality(UNION {{<<k, i>> : i \in {j \in 1..Len(data[k]) : data[k][j].type = "drink"}} :
                       k \in DOMAIN data})

\* A feeding is written only by a text that passes the time validation while
\* awaiting_feeding_time is set and no amount is awaited; the step writes one
\* feeding with the pending amount at the end of today's bucket and clears
\* awaiting_feeding_time and the pending amount.
FeedingWrittenByTimeStep ==
  (FeedingCount(Data(file')) > FeedingCount(Data(file)) \/ last'.ret = "feeding_added") =>
    \E u \in AUTHORIZED_USER_IDS, text \in DialogTexts :
       LET bucket == Data(file')[TodayKey]
       IN  /\ validate_time_format(text)
           /\ handle_message(u, text, "ok")
           /\ last'.ret = "feeding_added"
           /\ user_data[u].awaiting_feeding_time
           /\ ~ user_data[u].awaiting_feeding_amount
           /\ FeedingCount(Data(file')) = FeedingCount(Data(file)) + 1
           /\ Len(bucket) = Len(TodayBucket) + 1
           /\ SubSeq(bucket, 1, Len(TodayBucket)) = TodayBucket
           /\ bucket[Len(bucket)].type = "drink"
           /\ bucket[Len(bucket)].amount_ml = user_data[u].feeding_amount
           /\ ~ user_data'[u].awaiting_feeding_time
           /\ user_data'[u].feeding_amount = None

\* awaiting_feeding_time is set only by an integer of 1..500 sent while
\* awaiting_feeding_amount is set, which becomes the pending amount; the
\* pending amount changes in no other step but the one that writes the feeding.
TimeStepAfterAmount ==
  \A u \in UserIds :
     /\ (~ user_data[u].awaiting_feeding_time /\ user_data'[u].awaiting_feeding_time) =>
           user_data[u].awaiting_feeding_amount /\ last'.ret = "ask_time"
     /\ ToString(user_data'[u].feeding_amount) # ToString(user_data[u].feeding_amount) =>
           \/ last'.ret = "feeding_added"
           \/ /\ last'.ret = "ask_time"
              /\ user_data[u].awaiting_feeding_amount
              /\ \E text \in DialogTexts :
                    /\ handle_message(u, text, "ok")
                    /\ ParseInt(text).ok
                    /\ ParseInt(text).value \in 1..MaxAmountMl
                    /\ user_data'[u].feeding_amount = ParseInt(text).value
     /\ (last'.ret = "ask_time" /\ user_data[u].awaiting_feeding_amount
                                /\ ~ user_data'[u].awaiting_feeding_amount) =>
           \E text \in DialogTexts :
              /\ handle_message(u, text, "ok")
              /\ user_data'[u].feeding_amount = ParseInt(text).value

\* awaiting_feeding_amount is set only by /toevoegen_fles.
AmountStepAfterCommand ==
  \A u \in UserIds :
     (~ user_data[u].awaiting_feeding_amount /\ user_data'[u].awaiting_feeding_amount) =>
        bottle_command(u)

\* C29: a feeding is written only by a text that passes time validation while
\* awaiting_feeding_time is set, a state reached only through /toevoegen_fles
\* and then an integer of 1..500; each completed dialog writes exactly one
\* feeding with the amount accepted last and clears awaiting_feeding_time and
\* the pending amount, so that a further text finds no time step to complete.
C29_FeedingOnlyByCompletedDialog ==
  [][FeedingWrittenByTimeStep /\ TimeStepAfterAmount /\ AmountStepAfterCommand]_vars

\* C29 witness: a dialog has been completed with the amount 120, the one
\* feeding of the log carries it, and nothing is pending.
C29_Witness ==
  /\ last.op = "handle_message" /\ last.ret = "feeding_added"
  /\ FeedingCount(Data(file)) = 1
  /\ TodayBucket[Len(TodayBucket)].type = "drink"
  /\ TodayBucket[Len(TodayBucket)].amount_ml = 120
  /\ \A u \in AUTHORIZED_USER_IDS :
        ~ user_data[u].awaiting_feeding_time /\ user_data[u].feeding_amount = None

\* C30: for each user at most one of awaiting_feeding_amount,
\* awaiting_feeding_time and awaiting_temperature is set.
C30_AtMostOneDialogFlag ==
  \A u \in UserIds :
     Cardinality({flag \in {"awaiting_feeding_amount", "awaiting_feeding_time",
                            "awaiting_temperature"} : user_data[u][flag]}) <= 1


\* The number of temperature events a log holds.
TemperatureCount(data) ==
  Cardinality(UNION {{<<k, i>> : i \in {j \in 1..Len(data[k]) :
                                          data[k][j].type = "temperature"}} :
                       k \in DOMAIN data})

\* C31: after /toevoegen_temp (awaiting_temperature is set from the command
\* until a temperature is recorded) the next text of that user that holds a
\* number in 30.0..45.0 is recorded as exactly one temperature event and is
\* not taken as a feeding amount, whatever the user did before the command.
C31_NumberAfterTempCommandIsTemperature ==
  [][\A u \in AUTHORIZED_USER_IDS, text \in DialogTexts :
        (/\ user_data[u].awaiting_temperature
         /\ ParseFloat(text).ok
         /\ TemperatureInRange(ParseFloat(text).value)
         /\ handle_message(u, text, "ok")) =>
           /\ last'.ret = "temperature_added"
           /\ TemperatureCount(Data(file')) = TemperatureCount(Data(file)) + 1
           /\ ToString(user_data'[u].feeding_amount)
                = ToString(user_data[u].feeding_amount)]_vars


(***************************************************************************)
(* Properties of the handler invocations of one process.                   *)
(***************************************************************************)
\* The invocation w completes its operation in this step.
Completes(w) == writers[w].pc # "done" /\ writers'[w].pc = "done"

\* C32: within one process the load-mutate-save cycles never interleave, so
\* the log counts every operation: each step in which an invocation completes
\* changes the number of events by +1 for an append and by -1 for a delete
\* that returned a record, counted from the file as it was just before, and
\* no other step changes the file. Summed over a sequence of invocations, the
\* number of events is the initial number plus the appends minus those deletes.
C32_EveryCycleCounts ==
  [][/\ \A w \in Writers :
          Completes(w) =>
            /\ writers'[w].snap = Data(file)
            /\ EventCount(Data(file')) =
                 EventCount(Data(file))
                   + (IF writers'[w].saved THEN WriterDelta(writers'[w].op) ELSE 0)
     /\ (\A w \in Writers : ~ Completes(w)) => file' = file]_vars

\* C32 witness: while one invocation has completed an append and not yet
\* returned, another has completed a delete that returned a record, and the
\* log holds what is left of two appends.
C32_Witness ==
  \E w \in Writers : \E v \in Writers \ {w} :
    /\ last.op = "cycle" /\ last.ret = w
    /\ writers[w].pc = "done" /\ writers[w].saved /\ writers[w].op = "delete_drink"
    /\ writers[v].pc = "done" /\ writers[v].saved /\ writers[v].op = "add_diaper_change"
    /\ EventCount(Data(file)) = 2


\* C33: the all-time series have one entry per output date: dates, ml totals,
\* average temperatures and diaper totals have the same length, and the entry
\* at position i is the value of the date at position i, also when today was
\* appended because the log has no key for today.
C33_AllTimeSeriesAligned ==
  StatsSent =>
    LET s == last.stats
        n == Len(s.dates)
    IN  /\ Len(s.ml_totals) = n
        /\ Len(s.temp_data) = n
        /\ Len(s.diaper_data) = n
        /\ \A i \in 1..n :
             LET date_str == StrfDate(s.dates[i])
             IN  /\ s.ml_totals[i] = get_total_ml_for_date(file, date_str)
                 /\ s.temp_data[i] =
                      AverageTemperature(get_temperature_for_date(file, date_str))
                 /\ s.diaper_data[i] =
                      TotalDiapers(get_diaper_data_for_date(file, date_str))


\* The log that holds the one key today with the one event.
OnlyToday(event) == [k \in {TodayKey} |-> <<event>>]

\* C34: an append performed while storage is unparseable succeeds and leaves
\* storage holding a log with exactly one key, today, and exactly the new
\* event: nothing stored before is in the log afterwards.
C34_AppendOverCorruptStartsAfresh ==
  file.state = "corrupt" =>
    \A u \in AUTHORIZED_USER_IDS :
       /\ \A text \in MessageTexts :
             LET eff == MessageEffect(u, text, "ok")
             IN  eff.reply \in {"feeding_added", "temperature_added"} =>
                   /\ eff.file.state = "json"
                   /\ DOMAIN eff.file.data = {TodayKey}
                   /\ Len(eff.file.data[TodayKey]) = 1
                   /\ eff.file.data[TodayKey][1].type =
                        (IF eff.reply = "feeding_added" THEN "drink" ELSE "temperature")
       /\ \A data \in {d \in CallbackData : d[1] = "diaper"} :
             LET eff == CallbackEffect(u, data, "ok")
             IN  /\ eff.ret = "diaper_added"
                 /\ eff.file =
                      [state |-> "json",
                       data |-> OnlyToday(DiaperEntry(get_amsterdam_time, data[2], u))]

\* C34 witness: on the second day storage is unparseable after a failed write
\* and the user is at the time step of a feeding dialog, so that a feeding, a
\* diaper change or nothing can be appended next.
C34_Witness ==
  /\ file.state = "corrupt"
  /\ now.day = 1
  /\ \E u \in AUTHORIZED_USER_IDS : AtTimeStep(u)


(***************************************************************************)
(* Properties of the read path.                                            *)
(***************************************************************************)
QueryOps ==
  {"get_today_events", "get_total_ml_for_date", "get_temperature_for_date",
   "get_diaper_data_for_date"}

\* C35: every query and report leaves durable storage unchanged: the calls of
\* get_today_events and of the per-date queries are steps that do not change
\* the file, also when get_today_events returns the bucket in another order
\* than the stored one, and the weekly, monthly and all-time builders hand
\* back the file they were given.
C35_QueriesLeaveStorage ==
  /\ [] (\A u \in AUTHORIZED_USER_IDS, period \in {"week", "month", "all"} :
            CallbackEffect(u, <<"stats", period>>, "ok").file = file)
  /\ [][last'.op \in QueryOps => file' = file]_vars

\* C35 witness: get_today_events has returned today's events in another order
\* than the bucket stores them.
C35_Witness ==
  /\ last.op = "get_today_events"
  /\ Len(TodayBucket) >= 2
  /\ last.ret # TodayBucket


\* Today's key is in the log and its bucket is empty.
TodayEmptied == TodayKey \in DOMAIN Data(file) /\ TodayBucket = <<>>

\* C36: deleting the only event of today's bucket leaves today's key in the
\* log with an empty bucket, and that bucket is treated as empty: a following
\* delete of any kind returns the 'no events of this kind today' reason,
\* get_today_events returns the empty sequence and the per-date queries
\* return zero, no readings and zero counts.
C36_EmptiedBucketStaysAndIsEmpty ==
  /\ [][(last'.op = "handle_callback" /\ last'.ret = "deleted" /\ Len(TodayBucket) = 1) =>
          /\ TodayKey \in DOMAIN Data(file')
          /\ Data(file')[TodayKey] = <<>>]_vars
  /\ [] (TodayEmptied =>
           /\ \A k \in DeleteKinds :
                 LET r == delete_last_entry(file, get_amsterdam_time, k, "ok")
                 IN  /\ r.entry = NoEntry
                     /\ r.error = NoEntriesToday(k)
                     /\ r.file = file
           /\ get_today_events(file, get_amsterdam_time) = <<>>
           /\ get_total_ml_for_date(file, TodayKey) = 0
           /\ get_temperature_for_date(file, TodayKey) = <<>>
           /\ get_diaper_data_for_date(file, TodayKey) = ZeroDiaperCounts)

\* C36 witness: a delete has just removed the only event of today's bucket.
C36_Witness ==
  /\ Deleted /\ last.entry # NoEntry
  /\ TodayEmptied


\* C37: every diaper event written by handle_callback has diaper_type in
\* {pooped, peed, both}, for every callback data that starts with 'diaper_'
\* sent by an authorized user.
C37_DiaperTypeIsKnown ==
  \A k \in DOMAIN Data(file) :
     \A i \in 1..Len(Data(file)[k]) :
        LET event == Data(file)[k][i]
        IN  event.type = "diaper" =>
              event.diaper_type \in {"pooped", "peed", "both"}

\* C38: whenever format_time_difference returns a duration and not the
\* sentinel, the duration is that of a total of 0..1439 minutes, with hours in
\* 0..23 and minutes in 0..59, and a past time equal to the current time of
\* day gives 0 minutes.
C38_DurationWithinADay ==
  /\ (Formatted /\ last.ret # TimeUnknown) =>
       \E total_minutes \in 0..1439 :
         /\ last.ret = RenderDuration(total_minutes)
         /\ total_minutes \div 60 \in 0..23
         /\ total_minutes % 60 \in 0..59
  /\ (Formatted /\ IsTimeOfDay(last.arg) /\ ParsedTime(last.arg) = Seconds(now.time)) =>
       last.ret = <<"0", "m", " geleden">>

\* C38 witness: "00:10" has been formatted at 00:00:00 on 2025-01-31 as the
\* 23 hours 50 minutes since yesterday's 00:10.
C38_Witness ==
  /\ Formatted /\ last.arg = P_0010 /\ now.time = <<0, 0, 0>> /\ now.day = 0
  /\ last.ret = <<"2", "3", "u", "5", "0", "m", " geleden">>

====
